---------------------------- MODULE Spec2Model ----------------------------
(***************************************************************************)
(* SketchBoard collaboration core (src/src/collaboration/yjs.ts and the    *)
(* transport contract of src/unnamed/part_002).                            *)
(*                                                                         *)
(* A YjsDocument owns one Y.Doc whose root map 'shapes' maps a shape id to *)
(* a nested Y.Map of the shape's fields.  The document model below is the  *)
(* struct store of the yjs library as YjsDocument drives it: map entries   *)
(* are items (id = <<client, clock>>, origin, parent, key, content) kept   *)
(* in one list per (parent, key); the last item of a list is the entry's   *)
(* current value and every other item of the list is deleted; deletions    *)
(* are a grow-only set of item ids.  Garbage collection of deleted items   *)
(* replaces content that is never read again and is not modelled.  JSON    *)
(* field values are opaque to the document and are written as strings.     *)
(***************************************************************************)
EXTENDS Integers, Sequences, FiniteSets, TLC

\* ------------------------------------------------------------- bounds
NumReplicas == 2
MaxMergeOps == 2

Replicas == 1..NumReplicas

\* doc.clientID of replica r: distinct numbers, compared by the library
ClientId(r) == r

\* ------------------------------------------------------------- values
NoId == <<0, 0>>          \* null origin / no item
Root == <<0, 1>>          \* the root type doc.getMap('shapes')
YMapContent == "Y.Map"    \* ContentType holding a nested Y.Map
Undefined == "undefined"  \* JavaScript undefined

ShapeIds == {"s1"}

PenShape(id, style, points) ==
  [id |-> id, type |-> "pen", style |-> style, metadata |-> "meta", points |-> points]

PenShapeClosed(id, style, points, closed) ==
  [id |-> id, type |-> "pen", style |-> style, metadata |-> "meta",
   points |-> points, closed |-> closed]

RectangleShape(id, style, x) ==
  [id |-> id, type |-> "rectangle", style |-> style, metadata |-> "meta",
   x |-> x, y |-> "0", width |-> "10", height |-> "10"]

\* shapes handed to setShape by the tool layer
ShapeInputs ==
  UNION {{PenShape(id, "red", "p0"), PenShape(id, "blue", "p1")} : id \in ShapeIds}

\* ------------------------------------------------------------- Y.Doc
EmptyDoc ==
  [items |-> {}, lists |-> <<>>, deleted |-> {}, pendingStructs |-> {}, pendingDs |-> {}]

EmptyUpdate == [structs |-> {}, ds |-> {}]

Ids(d) == {i.id : i \in d.items}

GetItem(d, id) == CHOOSE i \in d.items : i.id = id

\* getState(store, client): the next clock of client
GetState(d, c) == Cardinality({i \in d.items : i.id[1] = c})

ListOf(d, p, k) == IF <<p, k>> \in DOMAIN d.lists THEN d.lists[<<p, k>>] ELSE <<>>

IndexOf(L, id) == IF id = NoId THEN 0 ELSE CHOOSE n \in 1..Len(L) : L[n] = id

\* parent._map.get(key): the last item of the entry's list
MapCurrent(d, p, k) ==
  LET L == ListOf(d, p, k) IN IF Len(L) = 0 THEN NoId ELSE L[Len(L)]

\* Y.Map.get(key)
TypeMapGet(d, p, k) ==
  LET c == MapCurrent(d, p, k)
  IN IF c # NoId /\ c \notin d.deleted THEN GetItem(d, c).content ELSE Undefined

\* Item.delete: marks the item; a nested Y.Map deletes its current entries
DeleteItem(d, id) ==
  IF id \in d.deleted THEN d
  ELSE LET it == GetItem(d, id)
           kids == IF it.content = YMapContent
                   THEN {MapCurrent(d, pk[1], pk[2]) : pk \in {q \in DOMAIN d.lists : q[1] = id}}
                   ELSE {}
       IN [d EXCEPT !.deleted = @ \cup {id} \cup kids]

\* ScanConflicts with the client comparison turned round
RECURSIVE ScanConflictsSmallerWins(_, _, _, _, _, _, _)
ScanConflictsSmallerWins(d, L, item, o, left, before, conflicting) ==
  IF o > Len(L) THEN left
  ELSE LET oi == GetItem(d, L[o])
           before2 == before \cup {oi.id}
           conf2 == conflicting \cup {oi.id}
       IN IF oi.origin = item.origin
          THEN IF oi.id[1] > item.id[1]
               THEN ScanConflictsSmallerWins(d, L, item, o + 1, o, before2, {})
               ELSE left
          ELSE IF oi.origin # NoId /\ oi.origin \in before2
               THEN IF oi.origin \notin conf2
                    THEN ScanConflictsSmallerWins(d, L, item, o + 1, o, before2, {})
                    ELSE ScanConflictsSmallerWins(d, L, item, o + 1, left, before2, conf2)
               ELSE left

\* ScanConflicts without the scan: the item goes right after its origin
ScanConflictsArrival(d, L, item, o, left, before, conflicting) == left

\* Item.integrate, conflict scan: the index after which the item is inserted
RECURSIVE ScanConflicts(_, _, _, _, _, _, _)
ScanConflicts(d, L, item, o, left, before, conflicting) ==
  IF o > Len(L) THEN left
  ELSE LET oi == GetItem(d, L[o])
           before2 == before \cup {oi.id}
           conf2 == conflicting \cup {oi.id}
       IN IF oi.origin = item.origin
          THEN IF oi.id[1] < item.id[1]
               THEN ScanConflicts(d, L, item, o + 1, o, before2, {})
               ELSE left
          ELSE IF oi.origin # NoId /\ oi.origin \in before2
               THEN IF oi.origin \notin conf2
                    THEN ScanConflicts(d, L, item, o + 1, o, before2, {})
                    ELSE ScanConflicts(d, L, item, o + 1, left, before2, conf2)
               ELSE left

\* Item.integrate, after the scan: links the item in after index left,
\* makes the last item the entry's value and deletes what it replaces
PlaceItem(d, item, left) ==
  LET L == ListOf(d, item.parent, item.key)
      newL == SubSeq(L, 1, left) \o <<item.id>> \o SubSeq(L, left + 1, Len(L))
      pk == <<item.parent, item.key>>
      d1 == [d EXCEPT !.items = @ \cup {item},
                      !.lists = [x \in DOMAIN d.lists \cup {pk} |->
                                   IF x = pk THEN newL ELSE d.lists[x]]]
      isLast == left = Len(L)
      d2 == IF isLast /\ left # 0 THEN DeleteItem(d1, L[left]) ELSE d1
      parentDeleted == item.parent # Root /\ item.parent \in d.deleted
  IN IF parentDeleted \/ ~isLast THEN DeleteItem(d2, item.id) ELSE d2

\* Integrate appending the item whatever its origin
IntegrateAppend(d, item) ==
  PlaceItem(d, item, Len(ListOf(d, item.parent, item.key)))

\* Integrate bringing a deleted parent back when an entry of it arrives
IntegrateRevive(d, item) ==
  LET d0 == [d EXCEPT !.deleted = @ \ {item.parent}]
      L == ListOf(d0, item.parent, item.key)
      li == IndexOf(L, item.origin)
  IN PlaceItem(d0, item, ScanConflicts(d0, L, item, li + 1, li, {}, {}))

\* Item.integrate for a map entry (parentSub # null, right = null)
Integrate(d, item) ==
  LET L == ListOf(d, item.parent, item.key)
      li == IndexOf(L, item.origin)
  IN PlaceItem(d, item, ScanConflicts(d, L, item, li + 1, li, {}, {}))

\* typeMapSet: a local write of one map entry by client c
TypeMapSet(d, c, p, k, content) ==
  Integrate(d, [id |-> <<c, GetState(d, c)>>, origin |-> MapCurrent(d, p, k),
                parent |-> p, key |-> k, content |-> content])

\* the update a transaction emits: the structs and deletions it added
TransactionUpdate(before, after) ==
  [structs |-> after.items \ before.items, ds |-> after.deleted \ before.deleted]

\* ------------------------------------------------ shape <-> Y.Map
ShapeToYjsMap(shape) ==
  LET opt(k) == IF k \in DOMAIN shape THEN <<k>> ELSE <<>>
      keys == <<"type", "style", "metadata">> \o
              CASE shape.type = "pen" -> <<"points">> \o opt("closed")
                [] shape.type = "rectangle" -> <<"x", "y", "width", "height">>
                [] shape.type = "ellipse" -> <<"centerX", "centerY", "radiusX", "radiusY">>
                [] shape.type = "text" -> <<"x", "y", "text">> \o opt("fontFamily") \o
                                           opt("fontSize") \o opt("fontWeight") \o opt("textAlign")
                [] OTHER -> <<>>
  IN [n \in 1..Len(keys) |-> <<keys[n], shape[keys[n]]>>]

NullShape == [type |-> "null"]

YjsMapToShape(d, shapeId, m) ==
  LET get(k) == TypeMapGet(d, m, k)
      dflt(k, v) == IF get(k) = Undefined THEN v ELSE get(k)
      type == get("type")
  IN CASE type = "pen" ->
            [id |-> shapeId, type |-> "pen", points |-> dflt("points", "[]"),
             style |-> get("style"), metadata |-> get("metadata"),
             closed |-> dflt("closed", "false")]
       [] type = "rectangle" ->
            [id |-> shapeId, type |-> "rectangle", x |-> dflt("x", "0"), y |-> dflt("y", "0"),
             width |-> dflt("width", "0"), height |-> dflt("height", "0"),
             style |-> get("style"), metadata |-> get("metadata")]
       [] type = "ellipse" ->
            [id |-> shapeId, type |-> "ellipse", centerX |-> dflt("centerX", "0"),
             centerY |-> dflt("centerY", "0"), radiusX |-> dflt("radiusX", "0"),
             radiusY |-> dflt("radiusY", "0"),
             style |-> get("style"), metadata |-> get("metadata")]
       [] type = "text" ->
            [id |-> shapeId, type |-> "text", x |-> dflt("x", "0"), y |-> dflt("y", "0"),
             text |-> dflt("text", ""), fontFamily |-> get("fontFamily"),
             fontSize |-> get("fontSize"), fontWeight |-> get("fontWeight"),
             textAlign |-> get("textAlign"),
             style |-> get("style"), metadata |-> get("metadata")]
       [] OTHER -> NullShape

\* ids of the root map's live entries (Y.Map.forEach skips deleted items)
LiveShapeIds(d) ==
  {pk[2] : pk \in {q \in DOMAIN d.lists : q[1] = Root /\ MapCurrent(d, q[1], q[2]) \notin d.deleted}}

GetShapes(d) ==
  LET conv(sid) == YjsMapToShape(d, sid, MapCurrent(d, Root, sid))
      kept == {sid \in LiveShapeIds(d) : conv(sid) # NullShape}
  IN [sid \in kept |-> conv(sid)]

\* ------------------------------------------------ Y.applyUpdate
Ready(d, s) ==
  /\ s.id[2] = GetState(d, s.id[1])
  /\ s.origin = NoId \/ s.origin \in Ids(d)
  /\ s.parent = Root \/ s.parent \in Ids(d)

IdBefore(a, b) == a[1] < b[1] \/ (a[1] = b[1] /\ a[2] <= b[2])

\* IntegrateStructs taking structs the store already holds for new ones
RECURSIVE IntegrateStructsNoSkip(_, _)
IntegrateStructsNoSkip(d, pool) ==
  LET ready == {s \in pool : s.id \in Ids(d) \/ Ready(d, s)}
  IN IF ready = {} THEN [d EXCEPT !.pendingStructs = pool]
     ELSE LET s == CHOOSE x \in ready : \A y \in ready : IdBefore(x.id, y.id)
          IN IntegrateStructsNoSkip(Integrate(d, s), pool \ {s})

\* integrates every struct whose dependencies are in the store; the rest
\* stays in store.pendingStructs until a later update brings them
RECURSIVE IntegrateStructs(_, _)
IntegrateStructs(d, pool) ==
  LET fresh == {s \in pool : s.id \notin Ids(d)}
      ready == {s \in fresh : Ready(d, s)}
  IN IF ready = {} THEN [d EXCEPT !.pendingStructs = fresh]
     ELSE LET s == CHOOSE x \in ready : \A y \in ready : IdBefore(x.id, y.id)
          IN IntegrateStructs(Integrate(d, s), fresh \ {s})

\* ApplyDeleteSet that only queues the deletions
ApplyDeleteSetQueued(d, ds) == [d EXCEPT !.pendingDs = ds]

\* readAndApplyDeleteSet: deletes the ids the store holds, keeps the others
RECURSIVE ApplyDeleteSet(_, _)
ApplyDeleteSet(d, ds) ==
  LET here == ds \cap Ids(d)
  IN IF here = {} THEN [d EXCEPT !.pendingDs = ds]
     ELSE LET id == CHOOSE x \in here : \A y \in here : IdBefore(x, y)
          IN ApplyDeleteSet(DeleteItem(d, id), ds \ {id})

ApplyUpdate(d, u) ==
  LET d1 == IntegrateStructs(d, d.pendingStructs \cup u.structs)
  IN ApplyDeleteSet(d1, d1.pendingDs \cup u.ds)

\* EncodeStateAsUpdate leaving the deletions out
EncodeStateNoDeletes(d) == [structs |-> d.items \cup d.pendingStructs, ds |-> {}]

\* Y.encodeStateAsUpdate(doc): the whole store, pending parts included
EncodeStateAsUpdate(d) ==
  [structs |-> d.items \cup d.pendingStructs, ds |-> d.deleted \cup d.pendingDs]

\* ------------------------------------------------ local writes
\* shapeToYjsMap on an integrated Y.Map: one transaction per shapeMap.set
RECURSIVE SetEntries(_, _, _, _, _)
SetEntries(d, c, m, kv, n) ==
  IF n > Len(kv) THEN [doc |-> d, updates |-> {}]
  ELSE LET d1 == TypeMapSet(d, c, m, kv[n][1], kv[n][2])
           rest == SetEntries(d1, c, m, kv, n + 1)
       IN [doc |-> rest.doc, updates |-> {TransactionUpdate(d, d1)} \cup rest.updates]

\* DocSetShape taking any entry of the root map, deleted or not, for the shape
DocSetShapeStale(d, c, shape) ==
  LET kv == ShapeToYjsMap(shape)
      m == MapCurrent(d, Root, shape.id)
  IN IF m # NoId
     THEN SetEntries(d, c, m, kv, 1)
     ELSE LET newId == <<c, GetState(d, c)>>
              d1 == TypeMapSet(d, c, Root, shape.id, YMapContent)
              d2 == SetEntries(d1, c, newId, kv, 1).doc
          IN [doc |-> d2, updates |-> {TransactionUpdate(d, d2)}]

\* YjsDocument.setShape: [doc, updates emitted by doc.on('update')]
DocSetShape(d, c, shape) ==
  LET kv == ShapeToYjsMap(shape)
      m == MapCurrent(d, Root, shape.id)
  IN IF TypeMapGet(d, Root, shape.id) # Undefined
     THEN SetEntries(d, c, m, kv, 1)
     ELSE LET newId == <<c, GetState(d, c)>>
              d1 == TypeMapSet(d, c, Root, shape.id, YMapContent)
              d2 == SetEntries(d1, c, newId, kv, 1).doc
          IN [doc |-> d2, updates |-> {TransactionUpdate(d, d2)}]

\* YjsDocument.deleteShape
DocDeleteShape(d, shapeId) ==
  LET m == MapCurrent(d, Root, shapeId)
      d1 == IF m = NoId THEN d ELSE DeleteItem(d, m)
  IN [doc |-> d1,
      updates |-> IF d1 = d THEN {} ELSE {TransactionUpdate(d, d1)}]

\* ------------------------------------------------------------- state
VARIABLES
  doc,         \* doc[r]: the Y.Doc of replica r's YjsDocument
  attached,    \* attached[r]: YjsDocument.transport is not null
  status,      \* status[r]: YjsDocument.status
  connPc,      \* connect(): "idle", or "awaiting" transport.connect
  discPc,      \* disconnect(): "idle", or "awaiting" transport.disconnect
  subscribed,  \* the transport of r holds the callbacks connect() gave it
  sent,        \* sent[r]: the updates r passed to transport.sendUpdate
  net,         \* <<sender, update>> pairs the transport relays
  emitted,     \* the updates the docs' 'update' event reported for local writes
  applied,     \* applied[r]: all that the updates merged into doc[r] carried
  hist,        \* the local writes made so far, with what the writer knew
  lastOp,      \* the local write just made, "none" after any other step
  nops,        \* number of local writes made
  nconn,       \* number of connect() calls made
  offline,     \* offline[r]: what r wrote with no transport attached and has
               \* not called connect() since
  syncing,     \* syncing[r]: the offline writes of r a connect() in flight covers
  owed,        \* owed[r]: the offline writes of r whose next connect() completed
  idb,         \* IndexedDB 'documents'/'main' of replica 1's browser: {} or {bytes}
  savedShapes, \* getShapes() of the document the bytes in idb were encoded from
  storageOk,   \* indexedDB.open succeeds
  pdb,         \* PersistenceManager.db is not null
  initPc,      \* PersistenceManager.initialize(): "idle", "opening", "restoring", "done"
  isInitialized, \* PersistenceManager.isInitialized
  pendingUpdate, \* PersistenceManager.pendingUpdate is not null
  saving,      \* save(): the bytes encoded and not yet written, {} when none in flight
  thrown,      \* the calls whose promise rejected or that threw to their caller
  epoch,       \* number of page reloads of replica 1's browser
  lastEv,      \* the kind of step just taken by the page of replica 1
  restoredFresh, \* the restore() just completed applied saved bytes to an empty doc
  cur,         \* YjsDocument.transport of the page: 0 for null, or a transport
  tcb,         \* tcb[t]: transport t holds the callbacks a connect() gave it
  ltStatus,    \* LocalTransport.status
  timers,      \* pending setTimeout callbacks of LocalTransport.connect
  awaits,      \* the awaits of connect() / disconnect() not yet resumed, oldest first
  attemptLog,  \* statuses the local transport reported since its last connect()
  wire,        \* wire[t]: the updates transport t has put on the network
  offlineSends, \* missed: updates handed to the local transport while it was
               \* disconnected; due: those of them handed over before a later
               \* connect() to it resolved
  stepSends,   \* the sendUpdate calls of the step just taken
  now,         \* Date.now(), in ticks
  pm,          \* the PresenceManager: "none", "alive", or "destroyed"
  localPresence, \* PresenceManager.localPresence
  awStates,    \* Awareness.states: per client the state, or NoState
  awUpdated,   \* Awareness.meta lastUpdated of the remote client
  updateInterval, \* PresenceManager.updateInterval is running
  listeners,   \* handlers YjsDocument and PresenceManager have registered
  docDestroyed, \* YjsDocument.destroy() was called
  removalAt,   \* the transport when presence removal was published: "open",
               \* "closed" after a connection, "never" connected, "none" yet
  beats,       \* runs of the PresenceManager interval callback
  onShapeChange, \* YjsDocument.onShapeChange is set
  rendered,    \* the snapshot onShapeChange was last called with
  heap,        \* per array held by reference: the points appended to it in place
  held,        \* the map a caller of getShapes() keeps
  heldValue,   \* what that map showed when it was returned
  calls,       \* calls[k]: where the k-th initialize() call stands: "none",
               \* "opening", "restoring", "done"
  handles,     \* the IDBDatabase handles opened and not closed
  dbRef,       \* PersistenceManager.db: 0 for null, or a handle
  intervals,   \* the setInterval timers created and not cleared
  autoSaveInterval, \* PersistenceManager.autoSaveInterval: 0 for null, or a timer
  pmListeners, \* the events the PersistenceManager's handlers are registered for
  destroyed,   \* destroy() was called and initialize() has not been called since
  pen,         \* PenTool.state: currentShape's points and shapeId, or NoStroke
  nextId,      \* number of ids generateId() has handed out
  lastResult,  \* what the PenTool returned for the event just delivered
  penLog,      \* the event just delivered to the PenTool, whether a stroke was
               \* active and whether an up or Escape had come since the last
               \* down before it (wasEnded) and with it (ended), the id of the
               \* latest create, the points of the stroke's latest result
               \* before the event (prev) and after it (last)
  inflight,    \* the tool results whose promise has not resolved: event numbers
  nevents,     \* number of input events CanvasRoot has handled
  storeLog,    \* the event numbers of the results applied to the canvas store
  vp,          \* Viewport.state: x, y, zoom
  nview,       \* number of Viewport calls made
  lastZoom     \* the zoomToPoint just made: its screen point and the world
               \* point that was under it, NoZoom after any other step

connVars == <<attached, status, connPc, discPc, subscribed, nconn>>
persistVars == <<idb, savedShapes, storageOk, pdb, initPc, isInitialized,
                 pendingUpdate, saving, thrown, epoch, lastEv, restoredFresh>>
presenceVars == <<now, pm, localPresence, awStates, awUpdated, updateInterval,
                  listeners, docDestroyed, removalAt, beats>>
consumerVars == <<onShapeChange, rendered, heap, held, heldValue>>
managerVars == <<calls, handles, dbRef, intervals, autoSaveInterval, pmListeners,
                 destroyed>>
toolVars == <<pen, nextId, lastResult, penLog, inflight, nevents, storeLog>>
viewVars == <<vp, nview, lastZoom>>
canvasVars == <<managerVars, toolVars, viewVars>>
sessionVars == <<presenceVars, consumerVars, canvasVars>>
localVars == <<cur, tcb, ltStatus, timers, awaits, attemptLog, wire, offlineSends,
               stepSends, sessionVars>>
vars == <<doc, attached, status, connPc, discPc, subscribed, sent, net,
          emitted, applied, hist, lastOp, nops, nconn, offline, syncing, owed,
          persistVars, localVars>>

\* the two transports a page is given: a LocalTransport and a networked
\* implementation of TransportProvider
LocalT == 1
RemoteT == 2
Transports == {LocalT, RemoteT}

ConnectionStatus == {"disconnected", "connecting", "connected", "syncing", "error"}

NullOrigin == "null"   \* the origin of shapesMap.set / Y.applyUpdate transactions
This == "this"         \* the YjsDocument itself

NoOp == [kind |-> "none"]

\* clientID of the session that wrote the document found in storage
SeedClient == NumReplicas + 1

SeedDoc == DocSetShape(EmptyDoc, SeedClient, PenShape("s1", "green", "p9")).doc

\* the document after replica 1 created s1 and every replica merged it, and
\* after replica 1 then deleted s1 and every replica merged that
Seed1 == DocSetShape(EmptyDoc, ClientId(1), PenShape("s1", "green", "p9")).doc
Seed1Deleted == DocDeleteShape(Seed1, "s1").doc

\* page reloads of replica 1's browser
MaxReloads == 1

\* doc.clientID of the Y.Doc replica r's page holds now: every new Y.Doc()
\* draws a new one
SessionClient(r) == IF r = 1 /\ epoch > 0 THEN SeedClient + epoch ELSE ClientId(r)

Clients == 1..(SeedClient + MaxReloads)

StateVector(d) == [c \in Clients |-> GetState(d, c)]

\* YjsDocument.handleDocumentUpdate: the updates handed to transport.sendUpdate
HandleDocumentUpdate(transport, update, origin) ==
  IF transport /\ origin # This THEN {}
  ELSE IF transport /\ origin = This THEN {update}
  ELSE {}

\* Y.mergeUpdates: one update carrying what both carry
MergeUpdates(a, b) == [structs |-> a.structs \cup b.structs, ds |-> a.ds \cup b.ds]

MergeAll(a, us) ==
  [structs |-> a.structs \cup UNION {u.structs : u \in us},
   ds |-> a.ds \cup UNION {u.ds : u \in us}]

\* transport.sendUpdate of the relaying transport: what it passes on to the
\* room; a transport that is not connected passes nothing on
Relay(r, us) == IF subscribed[r] THEN {<<r, u>> : u \in us} ELSE {}

\* update a carries everything update b carries
Carries(a, b) == b.structs \subseteq a.structs /\ b.ds \subseteq a.ds

\* ------------------------------------------------------------- actions
LocalWrite(r, kind, arg, res, parent) ==
  LET out == UNION {HandleDocumentUpdate(attached[r], u, NullOrigin) : u \in res.updates}
  IN /\ doc' = [doc EXCEPT ![r] = res.doc]
     /\ emitted' = emitted \cup res.updates
     /\ applied' = [applied EXCEPT ![r] = MergeAll(@, res.updates)]
     /\ sent' = [sent EXCEPT ![r] = @ \cup out]
     /\ net' = net \cup Relay(r, out)
     /\ offline' = [offline EXCEPT ![r] = IF attached[r] THEN @ ELSE MergeAll(@, res.updates)]
     /\ hist' = hist \cup {[kind |-> kind, r |-> r, sid |-> arg.id,
                             clock |-> GetState(doc[r], SessionClient(r)),
                             sv |-> StateVector(doc[r]), parent |-> parent,
                             n |-> Cardinality(res.doc.items \ doc[r].items)]}
     /\ lastOp' = [kind |-> kind, r |-> r, arg |-> arg, updates |-> res.updates,
                   attached |-> attached[r], status |-> status[r],
                   inflight |-> connPc[r] # "idle" \/ discPc[r] # "idle"]
     /\ nops' = nops + 1
     /\ UNCHANGED <<connVars, syncing, owed>>

SetShape(r, shape) ==
  LET d == doc[r]
      parent == IF TypeMapGet(d, Root, shape.id) # Undefined
                THEN MapCurrent(d, Root, shape.id)
                ELSE <<SessionClient(r), GetState(d, SessionClient(r))>>
  IN LocalWrite(r, "setShape", shape, DocSetShape(d, SessionClient(r), shape), parent)

DeleteShape(r, shapeId) ==
  LocalWrite(r, "deleteShape", [id |-> shapeId], DocDeleteShape(doc[r], shapeId),
             MapCurrent(doc[r], Root, shapeId))

\* connect(): up to the await of transport.connect
ConnectCall(r) ==
  /\ connPc[r] = "idle"
  /\ attached' = [attached EXCEPT ![r] = TRUE]
  /\ subscribed' = [subscribed EXCEPT ![r] = TRUE]
  /\ status' = [status EXCEPT ![r] = "connecting"]
  /\ connPc' = [connPc EXCEPT ![r] = "awaiting"]
  /\ nconn' = nconn + 1
  /\ offline' = [offline EXCEPT ![r] = EmptyUpdate]
  /\ syncing' = [syncing EXCEPT ![r] = MergeUpdates(@, offline[r])]
  /\ lastOp' = NoOp
  /\ UNCHANGED <<doc, emitted, applied, hist, nops, discPc, sent, net, owed>>

\* connect(): after the await, the initial state goes to the transport
ConnectResume(r) ==
  /\ connPc[r] = "awaiting"
  /\ LET initialUpdate == EncodeStateAsUpdate(doc[r])
     IN /\ sent' = [sent EXCEPT ![r] = @ \cup {initialUpdate}]
        /\ net' = net \cup Relay(r, {initialUpdate})
  /\ syncing' = [syncing EXCEPT ![r] = EmptyUpdate]
  /\ IF subscribed[r]
     THEN owed' = [owed EXCEPT ![r] = MergeUpdates(@, syncing[r])] /\ UNCHANGED offline
     ELSE offline' = [offline EXCEPT ![r] = MergeUpdates(@, syncing[r])] /\ UNCHANGED owed
  /\ connPc' = [connPc EXCEPT ![r] = "idle"]
  /\ lastOp' = NoOp
  /\ UNCHANGED <<doc, emitted, applied, hist, nops, nconn, attached, status, discPc,
                 subscribed>>

\* disconnect(): up to the await of transport.disconnect, or all of it
\* when no transport is attached
DisconnectCall(r) ==
  /\ discPc[r] = "idle"
  /\ IF attached[r]
     THEN /\ status' = [status EXCEPT ![r] = IF subscribed[r] THEN "disconnected" ELSE @]
          /\ subscribed' = [subscribed EXCEPT ![r] = FALSE]
          /\ discPc' = [discPc EXCEPT ![r] = "awaiting"]
     ELSE /\ status' = [status EXCEPT ![r] = "disconnected"]
          /\ UNCHANGED <<subscribed, discPc>>
  /\ lastOp' = NoOp
  /\ UNCHANGED <<doc, emitted, applied, hist, nops, nconn, attached, connPc, sent, net,
                 offline, syncing, owed>>

\* disconnect(): after the await
DisconnectResume(r) ==
  /\ discPc[r] = "awaiting"
  /\ attached' = [attached EXCEPT ![r] = FALSE]
  /\ status' = [status EXCEPT ![r] = "disconnected"]
  /\ discPc' = [discPc EXCEPT ![r] = "idle"]
  /\ lastOp' = NoOp
  /\ UNCHANGED <<doc, emitted, applied, hist, nops, nconn, connPc, subscribed, sent, net,
                 offline, syncing, owed>>

\* the transport reports a status through connect()'s handleStatusChange
HandleStatusChange(r, s) ==
  /\ subscribed[r]
  /\ status[r] # s
  /\ status' = [status EXCEPT ![r] = s]
  /\ lastOp' = NoOp
  /\ UNCHANGED <<doc, emitted, applied, hist, nops, nconn, attached, connPc, discPc,
                 subscribed, sent, net, offline, syncing, owed>>

\* the transport delivers an update through connect()'s handleUpdate
HandleUpdate(r, update) ==
  LET d1 == ApplyUpdate(doc[r], update)
      out == HandleDocumentUpdate(attached[r], update, NullOrigin)
  IN /\ subscribed[r]
     /\ doc' = [doc EXCEPT ![r] = d1]
     /\ applied' = [applied EXCEPT ![r] = MergeUpdates(@, update)]
     /\ sent' = [sent EXCEPT ![r] = @ \cup out]
     /\ net' = net \cup Relay(r, out)
     /\ lastOp' = NoOp
     /\ UNCHANGED <<emitted, hist, nops, nconn, attached, status, connPc, discPc,
                    subscribed, offline, syncing, owed>>

\* ------------------------------------------------------------- Spec
\* the coordinator: local writes, connect/disconnect and a relaying transport
MaxOps == 2
MaxConnects == 2

\* the page's awareness client and one remote peer
LocalClient == 1
RemoteClient == 2
AwClients == {LocalClient, RemoteClient}
\* a client without a state; a state whose presence field is null
NoState == [absent |-> TRUE]
NoPresence == [removed |-> TRUE]
Null == "null"

\* initialize() calls made on one PersistenceManager
MaxInitCalls == 2

\* PenTool.state with currentShape and shapeId null
NoStroke == [points |-> <<>>, shapeId |-> 0]

\* ToolResult null
NoResult == [type |-> "null"]

\* exact numbers: a fraction <<n, d>> in lowest terms with d > 0
Zero == <<0, 1>>
One == <<1, 1>>

NoZoom == [none |-> TRUE]

\* the handlers the YjsDocument constructor registers
ConstructorHandlers == {"shapesObserver", "documentUpdate"}

\* a YjsDocument was constructed; no PresenceManager yet
InitPresenceIdle ==
  /\ now = 0 /\ pm = "none"
  /\ localPresence = [cursor |-> Null, activeToolId |-> Null, userName |-> Undefined,
                      lastSeen |-> 0]
  /\ awStates = [c \in AwClients |-> NoState]
  /\ awUpdated = 0
  /\ updateInterval = FALSE
  /\ listeners = ConstructorHandlers
  /\ docDestroyed = FALSE
  /\ removalAt = "none"
  /\ beats = 0

\* connect() has not been given a callback and getShapes() was not called
InitConsumerIdle ==
  /\ onShapeChange = FALSE /\ rendered = <<>>
  /\ heap = [ref \in {"p0", "p1", "p9"} |-> 0]
  /\ held = <<>> /\ heldValue = <<>>

\* no PersistenceManager call was made: no handle, no timer, no listener
InitManagerIdle ==
  /\ calls = [k \in 1..MaxInitCalls |-> "none"]
  /\ handles = {} /\ dbRef = 0
  /\ intervals = {} /\ autoSaveInterval = 0
  /\ pmListeners = {} /\ destroyed = FALSE

\* a PenTool just created, and a CanvasRoot that has handled no event
InitToolIdle ==
  /\ pen = NoStroke /\ nextId = 0 /\ lastResult = NoResult
  /\ penLog = [event |-> "none", wasActive |-> FALSE, wasEnded |-> FALSE,
               ended |-> FALSE, create |-> 0, prev |-> <<>>, last |-> <<>>]
  /\ inflight = {} /\ nevents = 0 /\ storeLog = <<>>

\* new Viewport()
InitViewIdle ==
  /\ vp = [x |-> Zero, y |-> Zero, zoom |-> One]
  /\ nview = 0
  /\ lastZoom = NoZoom

InitCanvasIdle == InitManagerIdle /\ InitToolIdle /\ InitViewIdle

InitSessionIdle == InitPresenceIdle /\ InitConsumerIdle /\ InitCanvasIdle

\* no transport has been handed to connect()
InitLocalIdle ==
  /\ cur = 0 /\ tcb = [t \in Transports |-> FALSE]
  /\ ltStatus = "disconnected" /\ timers = 0 /\ awaits = <<>>
  /\ attemptLog = <<>> /\ wire = [t \in Transports |-> <<>>]
  /\ offlineSends = [missed |-> {}, due |-> {}] /\ stepSends = <<>>
  /\ InitSessionIdle

\* no persistence: initializePersistence() has not been called
InitPersistIdle ==
  /\ idb = {} /\ savedShapes = <<>> /\ storageOk = TRUE
  /\ pdb = FALSE /\ initPc = "idle" /\ isInitialized = FALSE
  /\ pendingUpdate = FALSE /\ saving = {} /\ thrown = {}
  /\ epoch = 0 /\ lastEv = "none" /\ restoredFresh = FALSE
  /\ InitLocalIdle

Init ==
  /\ \E base \in {EmptyDoc, SeedDoc} :
       /\ doc = [r \in Replicas |-> base]
       /\ applied = [r \in Replicas |-> EncodeStateAsUpdate(base)]
  /\ attached = [r \in Replicas |-> FALSE]
  /\ status = [r \in Replicas |-> "disconnected"]
  /\ connPc = [r \in Replicas |-> "idle"]
  /\ discPc = [r \in Replicas |-> "idle"]
  /\ subscribed = [r \in Replicas |-> FALSE]
  /\ sent = [r \in Replicas |-> {}]
  /\ net = {}
  /\ emitted = {}
  /\ hist = {}
  /\ lastOp = NoOp
  /\ nops = 0
  /\ nconn = 0
  /\ offline = [r \in Replicas |-> EmptyUpdate]
  /\ syncing = [r \in Replicas |-> EmptyUpdate]
  /\ owed = [r \in Replicas |-> EmptyUpdate]
  /\ InitPersistIdle

Next ==
  \E r \in Replicas :
    \/ \E shape \in ShapeInputs : nops < MaxOps /\ SetShape(r, shape) /\ UNCHANGED <<persistVars, localVars>>
    \/ \E shapeId \in ShapeIds : nops < MaxOps /\ DeleteShape(r, shapeId) /\ UNCHANGED <<persistVars, localVars>>
    \/ nconn < MaxConnects /\ ConnectCall(r) /\ UNCHANGED <<persistVars, localVars>>
    \/ ConnectResume(r) /\ UNCHANGED <<persistVars, localVars>>
    \/ DisconnectCall(r) /\ UNCHANGED <<persistVars, localVars>>
    \/ DisconnectResume(r) /\ UNCHANGED <<persistVars, localVars>>
    \/ \E s \in {"connected", "syncing", "error"} : HandleStatusChange(r, s) /\ UNCHANGED <<persistVars, localVars>>
    \/ \E m \in net : m[1] # r /\ HandleUpdate(r, m[2]) /\ UNCHANGED <<persistVars, localVars>>

Spec == Init /\ [][Next]_vars

\* ------------------------------------------------------------- SpecMerge
\* the merge itself: every replica is connected, and the transport delivers
\* the updates the docs emitted, or a peer's full state, in any order and
\* any number of times
InitMerge ==
  /\ \E base \in {EmptyDoc, SeedDoc, Seed1, Seed1Deleted} :
       /\ doc = [r \in Replicas |-> base]
       /\ sent = [r \in Replicas |-> {EncodeStateAsUpdate(base)}]
       /\ net = {<<r, EncodeStateAsUpdate(base)>> : r \in Replicas}
       /\ applied = [r \in Replicas |-> EncodeStateAsUpdate(base)]
  /\ attached = [r \in Replicas |-> TRUE]
  /\ status = [r \in Replicas |-> "connected"]
  /\ connPc = [r \in Replicas |-> "idle"]
  /\ discPc = [r \in Replicas |-> "idle"]
  /\ subscribed = [r \in Replicas |-> TRUE]
  /\ emitted = {}
  /\ hist = {}
  /\ lastOp = NoOp
  /\ nops = 0
  /\ nconn = 0
  /\ offline = [r \in Replicas |-> EmptyUpdate]
  /\ syncing = [r \in Replicas |-> EmptyUpdate]
  /\ owed = [r \in Replicas |-> EmptyUpdate]
  /\ InitPersistIdle

NextMerge ==
  \E r \in Replicas :
    \/ \E shape \in ShapeInputs : nops < MaxMergeOps /\ SetShape(r, shape) /\ UNCHANGED <<persistVars, localVars>>
    \/ \E shapeId \in ShapeIds : nops < MaxMergeOps /\ DeleteShape(r, shapeId) /\ UNCHANGED <<persistVars, localVars>>
    \/ \E u \in emitted : HandleUpdate(r, u) /\ UNCHANGED <<persistVars, localVars>>
    \/ \E q \in Replicas \ {r} : HandleUpdate(r, EncodeStateAsUpdate(doc[q])) /\ UNCHANGED <<persistVars, localVars>>

SpecMerge == InitMerge /\ [][NextMerge]_vars


\* ----------------------------------------------------------- SpecPersist
\* the page of replica 1 with its PersistenceManager: initialize, auto-save,
\* reload, and a transport that delivers again what the page's documents
\* emitted
MaxPersistOps == 2
MaxPersistConnects == 1

\* PersistenceManager.restore that skips a document that already has state
RestoreIfEmpty(d, saved) ==
  IF saved = {} \/ d # EmptyDoc THEN d ELSE ApplyUpdate(d, CHOOSE u \in saved : TRUE)

\* PersistenceManager.restore, once store.get has answered
Restore(d, saved) ==
  IF saved = {} THEN d ELSE ApplyUpdate(d, CHOOSE u \in saved : TRUE)

\* PersistenceManager.handleDocumentUpdate, registered by setupAutoSave
MarkPending(changed) == pendingUpdate' = (pendingUpdate \/ (isInitialized /\ changed))

\* setShape / deleteShape on the page: the document changes, the document's
\* 'update' listeners run (handleDocumentUpdate of YjsDocument and of the
\* PersistenceManager)
PageWrite(res) ==
  LET out == UNION {HandleDocumentUpdate(attached[1], u, NullOrigin) : u \in res.updates}
  IN /\ doc' = [doc EXCEPT ![1] = res.doc]
     /\ emitted' = emitted \cup res.updates
     /\ applied' = [applied EXCEPT ![1] = MergeAll(@, res.updates)]
     /\ sent' = [sent EXCEPT ![1] = @ \cup out]
     /\ net' = net \cup Relay(1, out)
     /\ MarkPending(res.updates # {})
     /\ nops' = nops + 1
     /\ restoredFresh' = FALSE
     /\ UNCHANGED <<connVars, hist, lastOp, offline, syncing, owed, idb, savedShapes,
                    storageOk, pdb, initPc, isInitialized, saving, thrown, epoch>>

PersistSetShape(shape) ==
  PageWrite(DocSetShape(doc[1], SessionClient(1), shape)) /\ UNCHANGED lastEv

PersistDeleteShape(shapeId) ==
  PageWrite(DocDeleteShape(doc[1], shapeId)) /\ UNCHANGED lastEv

\* initializePersistence() -> initialize(): up to the await of openDatabase
InitializeCall ==
  /\ initPc = "idle" /\ ~isInitialized
  /\ initPc' = "opening"
  /\ restoredFresh' = FALSE /\ UNCHANGED <<lastEv, lastOp>>
  /\ UNCHANGED <<doc, connVars, sent, net, emitted, applied, hist, nops, offline,
                 syncing, owed, idb, savedShapes, storageOk, pdb, isInitialized,
                 pendingUpdate, saving, thrown, epoch>>

\* openDatabase settles: request.onsuccess, or request.onerror whose
\* rejection leaves initialize() through the await
OpenDatabaseDone ==
  /\ initPc = "opening"
  /\ IF storageOk
     THEN pdb' = TRUE /\ initPc' = "restoring" /\ UNCHANGED thrown
     ELSE initPc' = "idle" /\ thrown' = thrown \cup {"initialize"} /\ UNCHANGED pdb
  /\ restoredFresh' = FALSE /\ UNCHANGED <<lastEv, lastOp>>
  /\ UNCHANGED <<doc, connVars, sent, net, emitted, applied, hist, nops, offline,
                 syncing, owed, idb, savedShapes, storageOk, isInitialized,
                 pendingUpdate, saving, epoch>>

\* restore() after store.get, then setupAutoSave and isInitialized = true
RestoreDone ==
  /\ initPc = "restoring"
  /\ doc' = [doc EXCEPT ![1] = Restore(@, idb)]
  /\ applied' = [applied EXCEPT ![1] = MergeAll(@, idb)]
  /\ restoredFresh' = (doc[1] = EmptyDoc /\ idb # {})
  /\ isInitialized' = TRUE /\ initPc' = "done"
  /\ UNCHANGED <<lastEv, lastOp>>
  /\ UNCHANGED <<connVars, sent, net, emitted, hist, nops, offline, syncing, owed,
                 idb, savedShapes, storageOk, pdb, pendingUpdate, saving, thrown,
                 epoch>>

\* whether the handler of `trigger` calls save(): the interval callback and
\* handleVisibilityChange test pendingUpdate, saveSync (beforeunload) does not
SaveDueAlways(trigger) == TRUE
SaveDue(trigger) == trigger = "unload" \/ pendingUpdate

\* save() up to the await of store.put, started by the auto-save tick or the
\* visibility change (both only when pending) or by beforeunload
SaveStart(trigger) ==
  /\ isInitialized /\ pdb /\ saving = {}
  /\ SaveDue(trigger)
  /\ saving' = {[bytes |-> EncodeStateAsUpdate(doc[1]), shapes |-> GetShapes(doc[1]),
                 trigger |-> trigger]}
  /\ restoredFresh' = FALSE /\ UNCHANGED <<lastEv, lastOp>>
  /\ UNCHANGED <<doc, connVars, sent, net, emitted, applied, hist, nops, offline,
                 syncing, owed, idb, savedShapes, storageOk, pdb, initPc,
                 isInitialized, pendingUpdate, thrown, epoch>>

\* save() after the await: the bytes are stored, pendingUpdate = null
SaveDone ==
  /\ saving # {}
  /\ \E sv \in saving : idb' = {sv.bytes} /\ savedShapes' = sv.shapes
  /\ pendingUpdate' = FALSE /\ saving' = {}
  /\ restoredFresh' = FALSE /\ UNCHANGED <<lastEv, lastOp>>
  /\ UNCHANGED <<doc, connVars, sent, net, emitted, applied, hist, nops, offline,
                 syncing, owed, storageOk, pdb, initPc, isInitialized, thrown, epoch>>

\* the page is closed and opened again: a new YjsDocument with an empty
\* Y.Doc; a write in flight is committed or lost
Reload ==
  /\ epoch < MaxReloads
  /\ epoch' = epoch + 1
  /\ \/ UNCHANGED <<idb, savedShapes>>
     \/ \E sv \in saving : idb' = {sv.bytes} /\ savedShapes' = sv.shapes
  /\ doc' = [doc EXCEPT ![1] = EmptyDoc]
  /\ applied' = [applied EXCEPT ![1] = EmptyUpdate]
  /\ attached' = [attached EXCEPT ![1] = FALSE]
  /\ status' = [status EXCEPT ![1] = "disconnected"]
  /\ connPc' = [connPc EXCEPT ![1] = "idle"]
  /\ discPc' = [discPc EXCEPT ![1] = "idle"]
  /\ subscribed' = [subscribed EXCEPT ![1] = FALSE]
  /\ sent' = [sent EXCEPT ![1] = {}]
  /\ pdb' = FALSE /\ initPc' = "idle" /\ isInitialized' = FALSE
  /\ pendingUpdate' = FALSE /\ saving' = {} /\ thrown' = {}
  /\ restoredFresh' = FALSE /\ UNCHANGED <<lastEv, lastOp>>
  /\ UNCHANGED <<net, emitted, hist, nops, nconn, storageOk, offline, syncing, owed>>

\* connect() up to the await of transport.connect
PersistConnectCall ==
  /\ connPc[1] = "idle"
  /\ attached' = [attached EXCEPT ![1] = TRUE]
  /\ subscribed' = [subscribed EXCEPT ![1] = TRUE]
  /\ status' = [status EXCEPT ![1] = "connecting"]
  /\ connPc' = [connPc EXCEPT ![1] = "awaiting"]
  /\ nconn' = nconn + 1
  /\ restoredFresh' = FALSE
  /\ UNCHANGED <<doc, discPc, sent, net, emitted, applied, hist, lastOp, nops,
                 offline, syncing, owed, idb, savedShapes, storageOk, pdb, initPc,
                 isInitialized, pendingUpdate, saving, thrown, epoch, lastEv>>

\* connect() after the await: the initial state goes to the transport
PersistConnectResume ==
  /\ connPc[1] = "awaiting"
  /\ LET initialUpdate == EncodeStateAsUpdate(doc[1])
     IN /\ sent' = [sent EXCEPT ![1] = @ \cup {initialUpdate}]
        /\ net' = net \cup Relay(1, {initialUpdate})
  /\ connPc' = [connPc EXCEPT ![1] = "idle"]
  /\ restoredFresh' = FALSE
  /\ UNCHANGED <<doc, attached, status, discPc, subscribed, nconn, emitted, applied,
                 hist, lastOp, nops, offline, syncing, owed, idb, savedShapes,
                 storageOk, pdb, initPc, isInitialized, pendingUpdate, saving,
                 thrown, epoch, lastEv>>

\* the transport delivers to the page an update some document emitted
PersistHandleUpdate(update) ==
  LET d1 == ApplyUpdate(doc[1], update)
      out == HandleDocumentUpdate(attached[1], update, NullOrigin)
  IN /\ subscribed[1]
     /\ doc' = [doc EXCEPT ![1] = d1]
     /\ applied' = [applied EXCEPT ![1] = MergeUpdates(@, update)]
     /\ sent' = [sent EXCEPT ![1] = @ \cup out]
     /\ net' = net \cup Relay(1, out)
     /\ MarkPending(d1 # doc[1])
     /\ restoredFresh' = FALSE
     /\ UNCHANGED <<connVars, emitted, hist, lastOp, nops, offline, syncing, owed,
                    idb, savedShapes, storageOk, pdb, initPc, isInitialized, saving,
                    thrown, epoch, lastEv>>

InitPersist ==
  /\ \E base \in {EmptyDoc} :
       /\ doc = [r \in Replicas |-> base]
       /\ applied = [r \in Replicas |-> EncodeStateAsUpdate(base)]
  /\ attached = [r \in Replicas |-> r # 1]
  /\ status = [r \in Replicas |-> IF r = 1 THEN "disconnected" ELSE "connected"]
  /\ connPc = [r \in Replicas |-> "idle"]
  /\ discPc = [r \in Replicas |-> "idle"]
  /\ subscribed = [r \in Replicas |-> r # 1]
  /\ sent = [r \in Replicas |-> {}]
  /\ net = {}
  /\ emitted = {}
  /\ hist = {}
  /\ lastOp = NoOp
  /\ nops = 0
  /\ nconn = 0
  /\ offline = [r \in Replicas |-> EmptyUpdate]
  /\ syncing = [r \in Replicas |-> EmptyUpdate]
  /\ owed = [r \in Replicas |-> EmptyUpdate]
  /\ idb = {} /\ savedShapes = <<>> /\ storageOk \in BOOLEAN
  /\ pdb = FALSE /\ initPc = "idle" /\ isInitialized = FALSE
  /\ pendingUpdate = FALSE /\ saving = {} /\ thrown = {}
  /\ epoch = 0 /\ lastEv = "none" /\ restoredFresh = FALSE
  /\ InitLocalIdle

NextPersist ==
  \/ \E shape \in ShapeInputs : nops < MaxPersistOps /\ PersistSetShape(shape) /\ UNCHANGED localVars
  \/ \E shapeId \in ShapeIds : nops < MaxPersistOps /\ PersistDeleteShape(shapeId) /\ UNCHANGED localVars
  \/ InitializeCall /\ UNCHANGED localVars
  \/ OpenDatabaseDone /\ UNCHANGED localVars
  \/ RestoreDone /\ UNCHANGED localVars
  \/ \E trigger \in {"tick", "hidden", "unload"} : SaveStart(trigger) /\ UNCHANGED localVars
  \/ SaveDone /\ UNCHANGED localVars
  \/ Reload /\ UNCHANGED localVars
  \/ nconn < MaxPersistConnects /\ PersistConnectCall /\ UNCHANGED localVars
  \/ PersistConnectResume /\ UNCHANGED localVars
  \/ \E u \in emitted : PersistHandleUpdate(u) /\ UNCHANGED localVars

SpecPersist == InitPersist /\ [][NextPersist]_vars

(***************************************************************************)
(* The connection life cycle of one page (replica 1) with the transports   *)
(* it is given: LocalTransport, and a networked TransportProvider whose    *)
(* promises settle, whose callbacks fire and whose calls fail whenever the *)
(* network makes them.                                                     *)
(***************************************************************************)
MaxLocalOps == 1
MaxLocalConnects == 2

Kind(t) == IF t = LocalT THEN "local" ELSE "remote"

\* the persistence variables no action of the connection life cycle touches
persistIdle == <<idb, savedShapes, storageOk, pdb, initPc, isInitialized,
                 pendingUpdate, saving, epoch, restoredFresh>>

\* the document variables no transport action touches
docIdle == <<connPc, discPc, subscribed, net, emitted, hist, lastOp, offline,
             syncing, owed>>

\* updates a peer can send through the networked transport
PeerUpdates ==
  {EncodeStateAsUpdate(SeedDoc), EncodeStateAsUpdate(DocDeleteShape(SeedDoc, "s1").doc)}

\* LocalTransport.connect reports this status synchronously, before it returns
LocalConnectStatusEager == "connected"
LocalConnectStatus == "connecting"

\* LocalTransport.sendUpdate: what the transport has put on the network after
\* it was handed `update`
LocalSendUpdate(w, update) == w

\* connect(): the updates handed to transport.sendUpdate once the await is over
InitialSendsIfNonEmpty(d) == IF d = EmptyDoc THEN <<>> ELSE <<EncodeStateAsUpdate(d)>>
InitialSends(d) == <<EncodeStateAsUpdate(d)>>

\* timers and network events are tasks: no task starts while a continuation
\* of an already resolved promise is queued
NoLocalJob == \A i \in 1..Len(awaits) : Kind(awaits[i][2]) # "local"

\* The job queue runs promise continuations in the order they were queued:
\* LocalTransport's promises are already resolved, so its continuations run
\* first-in first-out; a networked transport's promise settles at any time.
CanResume(i) ==
  IF Kind(awaits[i][2]) = "local"
  THEN \A j \in 1..(i - 1) : Kind(awaits[j][2]) # "local"
  ELSE NoLocalJob

RemoveAt(seq, i) == SubSeq(seq, 1, i - 1) \o SubSeq(seq, i + 1, Len(seq))

RECURSIVE SeqToSet(_)
SeqToSet(seq) == IF seq = <<>> THEN {} ELSE {Head(seq)} \cup SeqToSet(Tail(seq))

\* setShape / deleteShape while transports come and go
LocalSetShape(shape) ==
  /\ PageWrite(DocSetShape(doc[1], SessionClient(1), shape))
  /\ lastEv' = "write" /\ stepSends' = <<>>
  /\ UNCHANGED <<cur, tcb, ltStatus, timers, awaits, attemptLog, wire, offlineSends>>

LocalDeleteShape(shapeId) ==
  /\ PageWrite(DocDeleteShape(doc[1], shapeId))
  /\ lastEv' = "write" /\ stepSends' = <<>>
  /\ UNCHANGED <<cur, tcb, ltStatus, timers, awaits, attemptLog, wire, offlineSends>>

\* connect(transport), up to the await: the fields are set, transport.connect
\* runs its synchronous part (LocalTransport: keeps the status callback,
\* reports LocalConnectStatus, arms the 100 ms timer)
LocalConnectCall(t) ==
  /\ \A i \in 1..Len(awaits) : awaits[i] # <<"conn", t>>
  /\ cur' = t
  /\ attached' = [attached EXCEPT ![1] = TRUE]
  /\ tcb' = [tcb EXCEPT ![t] = TRUE]
  /\ IF Kind(t) = "local"
     THEN /\ ltStatus' = LocalConnectStatus
          /\ timers' = timers + 1
          /\ status' = [status EXCEPT ![1] = LocalConnectStatus]
          /\ attemptLog' = <<LocalConnectStatus>>
     ELSE UNCHANGED <<ltStatus, timers, status, attemptLog>>
  /\ awaits' = Append(awaits, <<"conn", t>>)
  /\ nconn' = nconn + 1
  /\ lastEv' = "connect" /\ stepSends' = <<>>
  /\ UNCHANGED <<doc, applied, sent, nops, thrown, wire, offlineSends, docIdle, persistIdle>>

\* connect(), after the await: the state is encoded and handed to the
\* transport connect() was called with. A networked transport's sendUpdate
\* may throw; nothing in connect() catches it.
LocalConnectResume(i, sendThrows) ==
  LET t == awaits[i][2]
      ups == InitialSends(doc[1])
  IN /\ i \in 1..Len(awaits) /\ awaits[i][1] = "conn" /\ CanResume(i)
     /\ sendThrows => Kind(t) = "remote"
     /\ awaits' = RemoveAt(awaits, i)
     /\ stepSends' = ups
     /\ sent' = [sent EXCEPT ![1] = @ \cup SeqToSet(ups)]
     /\ IF Kind(t) = "local"
        THEN /\ wire' = [wire EXCEPT ![t] =
                           IF ups = <<>> THEN @ ELSE LocalSendUpdate(@, ups[1])]
             /\ offlineSends' =
                  [missed |-> IF ltStatus = "disconnected"
                              THEN offlineSends.missed \cup SeqToSet(ups)
                              ELSE offlineSends.missed,
                   due |-> offlineSends.due \cup offlineSends.missed]
        ELSE /\ wire' = [wire EXCEPT ![t] = IF sendThrows THEN @ ELSE @ \o ups]
             /\ UNCHANGED offlineSends
     /\ thrown' = IF sendThrows THEN thrown \cup {"connect"} ELSE thrown
     /\ lastEv' = IF sendThrows THEN "connectFail" ELSE "connectResume"
     /\ UNCHANGED <<doc, applied, attached, status, nops, nconn, cur, tcb, ltStatus,
                    timers, attemptLog, docIdle, persistIdle>>

\* the promise of a networked transport's connect rejects: the await throws,
\* connect() has no handler and rejects to its caller
LocalConnectReject(i) ==
  /\ i \in 1..Len(awaits) /\ awaits[i] = <<"conn", RemoteT>> /\ NoLocalJob
  /\ awaits' = RemoveAt(awaits, i)
  /\ thrown' = thrown \cup {"connect"}
  /\ lastEv' = "connectFail" /\ stepSends' = <<>>
  /\ UNCHANGED <<doc, applied, attached, status, sent, nops, nconn, cur, tcb, ltStatus,
                 timers, attemptLog, wire, offlineSends, docIdle, persistIdle>>

\* disconnect(), up to the await: with no transport it completes at once;
\* otherwise the CURRENT transport's disconnect runs its synchronous part
\* (LocalTransport: reports 'disconnected', then drops the status callback)
LocalDisconnectCall ==
  /\ \A i \in 1..Len(awaits) : awaits[i][1] # "disc"
  /\ IF cur = 0
     THEN /\ status' = [status EXCEPT ![1] = "disconnected"]
          /\ UNCHANGED <<awaits, tcb, ltStatus, attemptLog>>
     ELSE /\ awaits' = Append(awaits, <<"disc", cur>>)
          /\ tcb' = [tcb EXCEPT ![cur] = FALSE]
          /\ IF Kind(cur) = "local"
             THEN /\ ltStatus' = "disconnected"
                  /\ status' = [status EXCEPT ![1] =
                                  IF tcb[cur] THEN "disconnected" ELSE @]
                  /\ attemptLog' = IF tcb[cur] THEN Append(attemptLog, "disconnected")
                                   ELSE attemptLog
             ELSE UNCHANGED <<ltStatus, status, attemptLog>>
  /\ lastEv' = "disconnect" /\ stepSends' = <<>>
  /\ UNCHANGED <<doc, applied, attached, sent, nops, nconn, thrown, cur, timers, wire,
                 offlineSends, docIdle, persistIdle>>

\* disconnect(), after the await: this.transport = null, status 'disconnected'
LocalDisconnectResume(i) ==
  /\ i \in 1..Len(awaits) /\ awaits[i][1] = "disc" /\ CanResume(i)
  /\ awaits' = RemoveAt(awaits, i)
  /\ cur' = 0
  /\ attached' = [attached EXCEPT ![1] = FALSE]
  /\ status' = [status EXCEPT ![1] = "disconnected"]
  /\ lastEv' = "disconnected" /\ stepSends' = <<>>
  /\ UNCHANGED <<doc, applied, sent, nops, nconn, thrown, tcb, ltStatus, timers,
                 attemptLog, wire, offlineSends, docIdle, persistIdle>>

\* the timer armed by LocalTransport.connect fires: setStatus('connected'),
\* which reaches handleStatusChange when the transport still holds a callback
TimerFire ==
  /\ timers > 0 /\ NoLocalJob
  /\ timers' = timers - 1
  /\ ltStatus' = "connected"
  /\ IF tcb[LocalT]
     THEN /\ status' = [status EXCEPT ![1] = "connected"]
          /\ attemptLog' = Append(attemptLog, "connected")
     ELSE UNCHANGED <<status, attemptLog>>
  /\ lastEv' = "callback" /\ stepSends' = <<>>
  /\ UNCHANGED <<doc, applied, attached, sent, nops, nconn, thrown, cur, tcb, awaits,
                 wire, offlineSends, docIdle, persistIdle>>

\* the networked transport reports a status through handleStatusChange
RemoteStatus(s) ==
  /\ tcb[RemoteT] /\ NoLocalJob /\ status[1] # s
  /\ status' = [status EXCEPT ![1] = s]
  /\ lastEv' = "callback" /\ stepSends' = <<>>
  /\ UNCHANGED <<doc, applied, attached, sent, nops, nconn, thrown, cur, tcb, ltStatus,
                 timers, awaits, attemptLog, wire, offlineSends, docIdle, persistIdle>>

\* the networked transport delivers a well-formed update to handleUpdate
RemoteUpdate(update) ==
  /\ tcb[RemoteT] /\ NoLocalJob /\ ~Carries(applied[1], update)
  /\ doc' = [doc EXCEPT ![1] = ApplyUpdate(@, update)]
  /\ applied' = [applied EXCEPT ![1] = MergeUpdates(@, update)]
  /\ lastEv' = "callback" /\ stepSends' = <<>>
  /\ UNCHANGED <<attached, status, sent, nops, nconn, thrown, cur, tcb, ltStatus,
                 timers, awaits, attemptLog, wire, offlineSends, docIdle, persistIdle>>

\* The networked transport delivers the bytes of `update` cut short.
\* Y.applyUpdate decodes and integrates the structs before it reads the delete
\* set: bytes that end inside the structs throw with the document untouched
\* (structsRead = FALSE), bytes that end inside the delete set throw after the
\* structs were integrated. handleUpdate catches nothing.
RemoteMalformedUpdate(update, structsRead) ==
  LET part == [structs |-> update.structs, ds |-> {}]
  IN /\ tcb[RemoteT] /\ NoLocalJob /\ "handleUpdate" \notin thrown
     /\ doc' = [doc EXCEPT ![1] = IF structsRead THEN ApplyUpdate(@, part) ELSE @]
     /\ applied' = [applied EXCEPT ![1] = IF structsRead THEN MergeUpdates(@, part) ELSE @]
     /\ thrown' = thrown \cup {"handleUpdate"}
     /\ lastEv' = "malformed" /\ stepSends' = <<>>
     /\ UNCHANGED <<attached, status, sent, nops, nconn, cur, tcb, ltStatus, timers,
                    awaits, attemptLog, wire, offlineSends, docIdle, persistIdle>>

InitLocal ==
  /\ doc = [r \in Replicas |-> EmptyDoc]
  /\ attached = [r \in Replicas |-> FALSE]
  /\ status = [r \in Replicas |-> "disconnected"]
  /\ connPc = [r \in Replicas |-> "idle"]
  /\ discPc = [r \in Replicas |-> "idle"]
  /\ subscribed = [r \in Replicas |-> FALSE]
  /\ sent = [r \in Replicas |-> {}]
  /\ net = {}
  /\ emitted = {}
  /\ applied = [r \in Replicas |-> EmptyUpdate]
  /\ hist = {}
  /\ lastOp = NoOp
  /\ nops = 0
  /\ nconn = 0
  /\ offline = [r \in Replicas |-> EmptyUpdate]
  /\ syncing = [r \in Replicas |-> EmptyUpdate]
  /\ owed = [r \in Replicas |-> EmptyUpdate]
  /\ InitPersistIdle

NextLocal ==
  \/ \E shape \in ShapeInputs : nops < MaxLocalOps /\ LocalSetShape(shape) /\ UNCHANGED sessionVars
  \/ \E shapeId \in ShapeIds : nops < MaxLocalOps /\ LocalDeleteShape(shapeId) /\ UNCHANGED sessionVars
  \/ \E t \in Transports : nconn < MaxLocalConnects /\ LocalConnectCall(t) /\ UNCHANGED sessionVars
  \/ \E i \in 1..Len(awaits), sendThrows \in BOOLEAN : LocalConnectResume(i, sendThrows) /\ UNCHANGED sessionVars
  \/ \E i \in 1..Len(awaits) : LocalConnectReject(i) /\ UNCHANGED sessionVars
  \/ LocalDisconnectCall /\ UNCHANGED sessionVars
  \/ \E i \in 1..Len(awaits) : LocalDisconnectResume(i) /\ UNCHANGED sessionVars
  \/ TimerFire /\ UNCHANGED sessionVars
  \/ \E s \in {"connected", "error"} : RemoteStatus(s) /\ UNCHANGED sessionVars
  \/ \E update \in PeerUpdates : RemoteUpdate(update) /\ UNCHANGED sessionVars
  \/ \E update \in PeerUpdates, structsRead \in BOOLEAN :
       RemoteMalformedUpdate(update, structsRead) /\ UNCHANGED sessionVars

SpecLocal == InitLocal /\ [][NextLocal]_vars

(***************************************************************************)
(* Presence: a PresenceManager on the Awareness instance of the page's     *)
(* YjsDocument, next to the document's connection and persistence, and the *)
(* teardown of both.                                                       *)
(***************************************************************************)
MaxTime == 3
MaxBeats == 2
MaxPresenceOps == 1
MaxPresenceConnects == 1

\* y-protocols Awareness drops a remote state not renewed for outdatedTimeout
OutdatedTimeout == 2

coreVars == <<doc, attached, status, connPc, discPc, subscribed, sent, net, emitted,
              applied, hist, lastOp, nops, nconn, offline, syncing, owed>>
transportVars == <<cur, tcb, ltStatus, timers, awaits, attemptLog, wire, offlineSends,
                   stepSends>>
persistRest == <<idb, savedShapes, storageOk, pdb, initPc, isInitialized, saving,
                 thrown, epoch, lastEv, restoredFresh>>

\* whether a change of the awareness state fires the Y.Doc 'update' event:
\* Awareness keeps its states outside the document
AwarenessChangesDocAlways == TRUE
AwarenessChangesDoc == FALSE

\* awareness.setLocalStateField('presence', entry)
SetLocalStateField(entry) ==
  /\ awStates' = [awStates EXCEPT ![LocalClient] = [presence |-> entry]]
  /\ MarkPending(AwarenessChangesDoc)

\* getRemotePresence(): every state but the local one that has a presence entry
GetRemotePresence ==
  [c \in {c \in AwClients \ {LocalClient} :
            awStates[c] # NoState /\ awStates[c].presence # NoPresence}
     |-> awStates[c].presence]

\* what the interval callback publishes: the entry with a new lastSeen when a
\* cursor is set, nothing otherwise
HeartbeatEntry(lp, t) == IF lp.cursor # Null THEN [lp EXCEPT !.lastSeen = t] ELSE lp

\* the handlers and timers now registered
Registered ==
  listeners
  \cup (IF isInitialized
        THEN {"persistenceUpdate", "beforeunload", "visibilitychange", "autoSaveInterval"}
        ELSE {})
  \cup (IF updateInterval THEN {"presenceInterval"} ELSE {})

\* the transport connection is open
TransportOpen == cur # 0 /\ tcb[cur]

\* new PresenceManager(doc.getAwareness(), userId)
NewPresenceManager ==
  /\ pm = "none" /\ ~docDestroyed
  /\ pm' = "alive"
  /\ localPresence' = [cursor |-> Null, activeToolId |-> Null, userName |-> Undefined,
                       lastSeen |-> now]
  /\ SetLocalStateField(localPresence')
  /\ listeners' = listeners \cup {"awarenessChange"}
  /\ updateInterval' = TRUE
  /\ UNCHANGED <<now, awUpdated, docDestroyed, removalAt, beats>>
  /\ UNCHANGED <<coreVars, transportVars, persistRest>>

\* updateCursor / updateActiveTool / updateUserInfo: the field is set, lastSeen
\* is stamped, a copy of the entry is published
UpdatePresence(field, value) ==
  /\ pm = "alive"
  /\ localPresence' = [localPresence EXCEPT ![field] = value, !.lastSeen = now]
  /\ localPresence' # localPresence
  /\ SetLocalStateField(localPresence')
  /\ UNCHANGED <<now, pm, awUpdated, updateInterval, listeners, docDestroyed,
                 removalAt, beats>>
  /\ UNCHANGED <<coreVars, transportVars, persistRest>>

updateCursor(cursor) == UpdatePresence("cursor", cursor)

updateActiveTool(toolId) == UpdatePresence("activeToolId", toolId)

updateUserInfo(userName) == UpdatePresence("userName", userName)

\* the 50 ms interval callback of startCursorUpdateLoop
CursorUpdateLoop ==
  /\ updateInterval /\ beats < MaxBeats
  /\ beats' = beats + 1
  /\ localPresence' = HeartbeatEntry(localPresence, now)
  /\ IF localPresence.cursor # Null
     THEN SetLocalStateField(localPresence')
     ELSE UNCHANGED <<awStates, pendingUpdate>>
  /\ UNCHANGED <<now, pm, awUpdated, updateInterval, listeners, docDestroyed, removalAt>>
  /\ UNCHANGED <<coreVars, transportVars, persistRest>>

\* PresenceManager.destroy(): the interval is cleared, presence null is published
PresenceDestroy ==
  /\ pm = "alive"
  /\ pm' = "destroyed"
  /\ updateInterval' = FALSE
  /\ SetLocalStateField(NoPresence)
  /\ removalAt' = IF TransportOpen THEN "open"
                  ELSE IF nconn > 0 THEN "closed" ELSE "never"
  /\ UNCHANGED <<now, localPresence, awUpdated, listeners, docDestroyed, beats>>
  /\ UNCHANGED <<coreVars, transportVars, persistRest>>

\* an awareness update of the remote peer is applied: its entry, stamped by
\* the peer, and the time it was received
RemotePresence(cursor) ==
  /\ awStates' = [awStates EXCEPT ![RemoteClient] =
                    [presence |-> [cursor |-> cursor, activeToolId |-> Null,
                                   userName |-> Undefined, lastSeen |-> now]]]
  /\ awStates' # awStates
  /\ awUpdated' = now
  /\ MarkPending(AwarenessChangesDoc)
  /\ UNCHANGED <<now, pm, localPresence, updateInterval, listeners, docDestroyed,
                 removalAt, beats>>
  /\ UNCHANGED <<coreVars, transportVars, persistRest>>

\* the check interval of Awareness (every outdatedTimeout / 10): a remote
\* state not renewed for outdatedTimeout is removed
AwarenessCheck ==
  /\ awStates[RemoteClient] # NoState
  /\ OutdatedTimeout <= now - awUpdated
  /\ awStates' = [awStates EXCEPT ![RemoteClient] = NoState]
  /\ UNCHANGED <<now, pm, localPresence, awUpdated, updateInterval, listeners,
                 docDestroyed, removalAt, beats>>
  /\ UNCHANGED <<coreVars, transportVars, persistVars>>

\* time passes
Tick ==
  /\ now < MaxTime
  /\ now' = now + 1
  /\ UNCHANGED <<pm, localPresence, awStates, awUpdated, updateInterval, listeners,
                 docDestroyed, removalAt, beats>>
  /\ UNCHANGED <<coreVars, transportVars, persistVars>>

\* YjsDocument.destroy(): disconnect() runs up to its await (not awaited),
\* then persistence.destroy() stops auto-save, removes the persistence
\* listeners and closes the database
DocDestroy ==
  /\ ~docDestroyed /\ initPc \in {"idle", "done"}
  /\ \A i \in 1..Len(awaits) : awaits[i][1] # "disc"
  /\ docDestroyed' = TRUE
  /\ IF cur = 0
     THEN /\ status' = [status EXCEPT ![1] = "disconnected"]
          /\ UNCHANGED <<awaits, tcb, ltStatus, attemptLog>>
     ELSE /\ awaits' = Append(awaits, <<"disc", cur>>)
          /\ tcb' = [tcb EXCEPT ![cur] = FALSE]
          /\ IF Kind(cur) = "local"
             THEN /\ ltStatus' = "disconnected"
                  /\ status' = [status EXCEPT ![1] =
                                  IF tcb[cur] THEN "disconnected" ELSE @]
                  /\ attemptLog' = IF tcb[cur] THEN Append(attemptLog, "disconnected")
                                   ELSE attemptLog
             ELSE UNCHANGED <<ltStatus, status, attemptLog>>
  /\ pdb' = FALSE /\ isInitialized' = FALSE
  /\ lastEv' = "destroy" /\ stepSends' = <<>>
  /\ UNCHANGED <<doc, attached, connPc, discPc, subscribed, sent, net, emitted, applied,
                 hist, lastOp, nops, nconn, offline, syncing, owed>>
  /\ UNCHANGED <<cur, timers, wire, offlineSends>>
  /\ UNCHANGED <<idb, savedShapes, storageOk, initPc, pendingUpdate, saving, thrown,
                 epoch, restoredFresh>>
  /\ UNCHANGED <<now, pm, localPresence, awStates, awUpdated, updateInterval, listeners,
                 removalAt, beats>>

InitPresence == InitLocal

NextPresence ==
  \/ NewPresenceManager /\ UNCHANGED <<consumerVars, canvasVars>>
  \/ \E cursor \in {"p1"} : updateCursor(cursor) /\ UNCHANGED <<consumerVars, canvasVars>>
  \/ \E toolId \in {"pen"} : updateActiveTool(toolId) /\ UNCHANGED <<consumerVars, canvasVars>>
  \/ \E userName \in {"ann"} : updateUserInfo(userName) /\ UNCHANGED <<consumerVars, canvasVars>>
  \/ CursorUpdateLoop /\ UNCHANGED <<consumerVars, canvasVars>>
  \/ PresenceDestroy /\ UNCHANGED <<consumerVars, canvasVars>>
  \/ \E cursor \in {"p1"} : RemotePresence(cursor) /\ UNCHANGED <<consumerVars, canvasVars>>
  \/ AwarenessCheck /\ UNCHANGED <<consumerVars, canvasVars>>
  \/ Tick /\ UNCHANGED <<consumerVars, canvasVars>>
  \/ DocDestroy /\ UNCHANGED <<consumerVars, canvasVars>>
  \/ \E shape \in {PenShape("s1", "red", "p1")} :
       /\ nops < MaxPresenceOps /\ ~docDestroyed
       /\ PersistSetShape(shape) /\ UNCHANGED localVars
  \/ ~docDestroyed /\ InitializeCall /\ UNCHANGED localVars
  \/ OpenDatabaseDone /\ UNCHANGED localVars
  \/ RestoreDone /\ UNCHANGED localVars
  \/ /\ nconn < MaxPresenceConnects /\ ~docDestroyed
     /\ LocalConnectCall(LocalT) /\ UNCHANGED sessionVars
  \/ \E i \in 1..Len(awaits) : LocalConnectResume(i, FALSE) /\ UNCHANGED sessionVars
  \/ \E i \in 1..Len(awaits) : LocalDisconnectResume(i) /\ UNCHANGED sessionVars

SpecPresence == InitPresence /\ [][NextPresence]_vars

(***************************************************************************)
(* The consumers of a YjsDocument: the rendering callback handed to        *)
(* connect(), callers of getShapes() holding what it returned, and callers *)
(* of getDoc().                                                            *)
(***************************************************************************)
MaxConsumerOps == 2
MaxConsumerConnects == 1
MaxPushes == 1

\* the arrays the tool layer hands to setShape and those decoded from a peer's update
ArrayRefs == {"p0", "p1", "p9"}

\* A shape as its holder sees it: Y.Map keeps the array it was given and
\* get() returns that same array, so the points of a shape are whatever the
\* array holds now
DerefShape(shape, h) ==
  IF shape.points \in DOMAIN h
  THEN [shape EXCEPT !.points = <<shape.points, h[shape.points]>>]
  ELSE shape

Deref(shapes, h) == [sid \in DOMAIN shapes |-> DerefShape(shapes[sid], h)]

\* the entries of the shapes map itself: Y.Map.observe fires for a
\* transaction that adds or deletes one of them, not for changes inside a
\* nested map
RootItems(d) == {<<it.id, it.id \in d.deleted>> : it \in {x \in d.items : x.parent = Root}}

\* handleShapesChange, run by the shapes map observer: the snapshot the
\* rendering callback has last been given
HandleShapesChange(old, d, d2) ==
  IF onShapeChange /\ RootItems(d2) # RootItems(d) THEN GetShapes(d2) ELSE old

consumerRest == <<onShapeChange, heap, held, heldValue>>

\* connect(transport, onStatusChange, onShapeChange)
ConsumerConnect(t) ==
  /\ LocalConnectCall(t)
  /\ onShapeChange' = TRUE
  /\ UNCHANGED <<rendered, heap, held, heldValue, presenceVars, canvasVars>>

\* setShape / deleteShape, with the observer
ConsumerWrite(res) ==
  /\ PageWrite(res)
  /\ lastEv' = "write"
  /\ rendered' = HandleShapesChange(rendered, doc[1], res.doc)
  /\ UNCHANGED <<transportVars, consumerRest, presenceVars, canvasVars>>

ConsumerSetShape(shape) == ConsumerWrite(DocSetShape(doc[1], SessionClient(1), shape))

ConsumerDeleteShape(shapeId) == ConsumerWrite(DocDeleteShape(doc[1], shapeId))

\* a caller changes the document through the Y.Doc that getDoc() returned:
\* getDoc().getMap('shapes').delete(shapeId)
GetDocWrite(shapeId) ==
  LET res == DocDeleteShape(doc[1], shapeId)
  IN /\ res.updates # {}
     /\ PageWrite(res)
     /\ lastEv' = "getDoc"
     /\ rendered' = HandleShapesChange(rendered, doc[1], res.doc)
     /\ UNCHANGED <<transportVars, consumerRest, presenceVars, canvasVars>>

\* handleUpdate, with the observer
ConsumerRemoteUpdate(update) ==
  /\ RemoteUpdate(update)
  /\ rendered' = HandleShapesChange(rendered, doc[1], ApplyUpdate(doc[1], update))
  /\ UNCHANGED <<consumerRest, presenceVars, canvasVars>>

\* getShapes(): the caller keeps the returned map
GetShapesCall ==
  /\ held' = GetShapes(doc[1])
  /\ held' # held
  /\ heldValue' = Deref(held', heap)
  /\ UNCHANGED <<coreVars, persistVars, transportVars, presenceVars, canvasVars,
                 onShapeChange, rendered, heap>>

\* the holder of a returned shape appends a point to its points array
PushPoint(ref) ==
  /\ \E sid \in DOMAIN held : held[sid].points = ref
  /\ ref \in DOMAIN heap /\ heap[ref] < MaxPushes
  /\ heap' = [heap EXCEPT ![ref] = @ + 1]
  /\ UNCHANGED <<coreVars, persistVars, transportVars, presenceVars, canvasVars,
                 onShapeChange, rendered, held, heldValue>>

InitConsumer == InitLocal

NextConsumer ==
  \/ \E t \in Transports : nconn < MaxConsumerConnects /\ ConsumerConnect(t)
  \/ \E i \in 1..Len(awaits) : LocalConnectResume(i, FALSE) /\ UNCHANGED sessionVars
  \/ \E shape \in ShapeInputs : nops < MaxConsumerOps /\ ConsumerSetShape(shape)
  \/ \E shapeId \in ShapeIds : nops < MaxConsumerOps /\ ConsumerDeleteShape(shapeId)
  \/ \E shapeId \in ShapeIds : nops < MaxConsumerOps /\ GetDocWrite(shapeId)
  \/ \E update \in PeerUpdates : ConsumerRemoteUpdate(update)
  \/ GetShapesCall
  \/ \E ref \in ArrayRefs : PushPoint(ref)

SpecConsumer == InitConsumer /\ [][NextConsumer]_vars


(***************************************************************************)
(* The PersistenceManager of one page with what it holds outside itself:   *)
(* database handles, interval timers and event listeners, under            *)
(* initialize() calls that overlap, destroy() at any point, and writes to  *)
(* the store that fail.                                                    *)
(***************************************************************************)
MaxManagerOps == 1

PersistenceEvents == {"update", "beforeunload", "visibilitychange"}

managerRest == <<transportVars, presenceVars, consumerVars, toolVars, viewVars>>

\* initialize() up to the await of openDatabase; returns at once when
\* isInitialized
ManagerInitializeCall(k) ==
  /\ calls[k] = "none" /\ \A j \in 1..(k - 1) : calls[j] # "none"
  /\ calls' = [calls EXCEPT ![k] = IF isInitialized THEN "done" ELSE "opening"]
  /\ destroyed' = FALSE
  /\ lastEv' = "initialize" /\ restoredFresh' = FALSE
  /\ UNCHANGED <<coreVars, idb, savedShapes, storageOk, pdb, initPc, isInitialized,
                 pendingUpdate, saving, thrown, epoch>>
  /\ UNCHANGED <<handles, dbRef, intervals, autoSaveInterval, pmListeners>>
  /\ UNCHANGED managerRest

\* openDatabase resolves for call k: this.db = handle, and restore() runs up
\* to the await of store.get
ManagerOpenDone(k) ==
  /\ calls[k] = "opening"
  /\ handles' = handles \cup {k} /\ dbRef' = k /\ pdb' = TRUE
  /\ calls' = [calls EXCEPT ![k] = "restoring"]
  /\ lastEv' = "opened" /\ restoredFresh' = FALSE
  /\ UNCHANGED <<coreVars, idb, savedShapes, storageOk, initPc, isInitialized,
                 pendingUpdate, saving, thrown, epoch>>
  /\ UNCHANGED <<intervals, autoSaveInterval, pmListeners, destroyed>>
  /\ UNCHANGED managerRest

\* store.get answers for call k: the saved bytes are applied, setupAutoSave
\* registers the three handlers and starts an interval, isInitialized = true
ManagerRestoreDone(k) ==
  LET d1 == Restore(doc[1], idb)
  IN /\ calls[k] = "restoring"
     /\ doc' = [doc EXCEPT ![1] = d1]
     /\ applied' = [applied EXCEPT ![1] = MergeAll(@, idb)]
     /\ restoredFresh' = (doc[1] = EmptyDoc /\ idb # {})
     /\ MarkPending(d1 # doc[1])
     /\ pmListeners' = PersistenceEvents
     /\ intervals' = intervals \cup {k} /\ autoSaveInterval' = k
     /\ isInitialized' = TRUE
     /\ calls' = [calls EXCEPT ![k] = "done"]
     /\ lastEv' = "restored"
     /\ UNCHANGED <<connVars, sent, net, emitted, hist, lastOp, nops, offline, syncing,
                    owed, idb, savedShapes, storageOk, pdb, initPc, saving, thrown,
                    epoch>>
     /\ UNCHANGED <<handles, dbRef, destroyed>>
     /\ UNCHANGED managerRest

\* destroy(): stopAutoSave clears the interval autoSaveInterval names, the
\* three handlers are removed, the handle db names is closed
ManagerDestroy ==
  /\ ~destroyed
  /\ intervals' = intervals \ {autoSaveInterval} /\ autoSaveInterval' = 0
  /\ pmListeners' = {}
  /\ handles' = handles \ {dbRef} /\ dbRef' = 0 /\ pdb' = FALSE
  /\ isInitialized' = FALSE
  /\ destroyed' = TRUE
  /\ lastEv' = "destroy" /\ restoredFresh' = FALSE
  /\ UNCHANGED <<coreVars, idb, savedShapes, storageOk, initPc, pendingUpdate, saving,
                 thrown, epoch>>
  /\ UNCHANGED calls
  /\ UNCHANGED managerRest

\* setShape on the page
ManagerSetShape(shape) ==
  /\ PageWrite(DocSetShape(doc[1], SessionClient(1), shape))
  /\ lastEv' = "write"
  /\ UNCHANGED <<managerVars, managerRest>>

\* the handler of `trigger` is still registered: an interval not cleared, or
\* a listener not removed
TriggerLive(trigger) ==
  CASE trigger = "tick" -> intervals # {}
    [] trigger = "hidden" -> "visibilitychange" \in pmListeners
    [] trigger = "unload" -> "beforeunload" \in pmListeners

\* save() up to the await of store.put; returns at once when db is null
ManagerSaveStart(trigger) ==
  /\ TriggerLive(trigger) /\ SaveDue(trigger)
  /\ pdb /\ saving = {}
  /\ saving' = {[bytes |-> EncodeStateAsUpdate(doc[1]), shapes |-> GetShapes(doc[1]),
                 trigger |-> trigger]}
  /\ lastEv' = "saveStart" /\ restoredFresh' = FALSE
  /\ UNCHANGED <<coreVars, idb, savedShapes, storageOk, pdb, initPc, isInitialized,
                 pendingUpdate, thrown, epoch>>
  /\ UNCHANGED <<managerVars, managerRest>>

\* save() with pendingUpdate = null moved before the await
SaveSettledClearsFirst(ok, sv) ==
  [idb |-> IF ok THEN {sv.bytes} ELSE idb,
   savedShapes |-> IF ok THEN sv.shapes ELSE savedShapes,
   pendingUpdate |-> FALSE,
   thrown |-> thrown]

\* save() after the await of store.put: on success the bytes are stored and
\* pendingUpdate = null; a rejection is caught and logged
SaveSettled(ok, sv) ==
  [idb |-> IF ok THEN {sv.bytes} ELSE idb,
   savedShapes |-> IF ok THEN sv.shapes ELSE savedShapes,
   pendingUpdate |-> IF ok THEN FALSE ELSE pendingUpdate,
   thrown |-> thrown]

\* store.put settles: the write succeeded (ok) or failed
ManagerSaveSettle(ok) ==
  /\ saving # {}
  /\ \E sv \in saving :
       LET out == SaveSettled(ok, sv)
       IN /\ idb' = out.idb /\ savedShapes' = out.savedShapes
          /\ pendingUpdate' = out.pendingUpdate /\ thrown' = out.thrown
  /\ saving' = {}
  /\ lastEv' = IF ok THEN "saved" ELSE "saveFail"
  /\ restoredFresh' = FALSE
  /\ UNCHANGED <<coreVars, storageOk, pdb, initPc, isInitialized, epoch>>
  /\ UNCHANGED <<managerVars, managerRest>>

InitManager == InitLocal

NextManager ==
  \/ \E k \in 1..MaxInitCalls : ManagerInitializeCall(k)
  \/ \E k \in 1..MaxInitCalls : ManagerOpenDone(k)
  \/ \E k \in 1..MaxInitCalls : ManagerRestoreDone(k)
  \/ ManagerDestroy
  \/ \E shape \in {PenShape("s1", "red", "p1")} :
       nops < MaxManagerOps /\ ManagerSetShape(shape)
  \/ \E trigger \in {"tick", "hidden", "unload"} : ManagerSaveStart(trigger)
  \/ \E ok \in BOOLEAN : ManagerSaveSettle(ok)

SpecManager == InitManager /\ [][NextManager]_vars


(***************************************************************************)
(* setShape over every store state one shape id can be in: no shape, a     *)
(* shape of the same type with or without its optional field, a shape of   *)
(* another type, a deleted shape.                                          *)
(***************************************************************************)
MaxShapeOps == 3

\* shapes of two types, with and without the optional field of PenShape
ShapeKinds ==
  {PenShape("s1", "red", "p0"), PenShapeClosed("s1", "blue", "p1", "true"),
   PenShapeClosed("s1", "red", "p1", "false"), RectangleShape("s1", "red", "5")}

\* getShapes().get(shape.id) of a store that was only ever given `shape`
FreshShape(shape) ==
  GetShapes(DocSetShape(EmptyDoc, SessionClient(1), shape).doc)[shape.id]

InitShapes == InitLocal

NextShapes ==
  \/ \E shape \in ShapeKinds :
       nops < MaxShapeOps /\ SetShape(1, shape) /\ UNCHANGED <<persistVars, localVars>>
  \/ \E shapeId \in ShapeIds :
       nops < MaxShapeOps /\ DeleteShape(1, shapeId) /\ UNCHANGED <<persistVars, localVars>>

SpecShapes == InitShapes /\ [][NextShapes]_vars


(***************************************************************************)
(* A PenTool under every sequence of pointer and key events.               *)
(***************************************************************************)
MaxStrokes == 2
MaxStrokeLen == 3

\* world points of the events
PenPoints == {<<0, 0>>, <<1, 0>>}

PenKeys == {"Escape", "p"}

\* this.state.currentShape && this.state.shapeId
ActiveStroke(st) == st.points # <<>> /\ st.shapeId # 0

\* PenTool.onPointerDown with the id generateId() returned
OnPointerDown(st, id, pt) ==
  [state |-> [points |-> <<pt>>, shapeId |-> id],
   result |-> [type |-> "create", shapeId |-> id,
               shape |-> [id |-> id, points |-> <<pt>>, closed |-> FALSE]]]

\* PenTool.onPointerMove
OnPointerMove(st, pt) ==
  IF ~ActiveStroke(st) THEN [state |-> st, result |-> NoResult]
  ELSE LET points == Append(st.points, pt)
       IN [state |-> [st EXCEPT !.points = points],
           result |-> [type |-> "update", shapeId |-> st.shapeId,
                       shape |-> [id |-> st.shapeId, points |-> points,
                                  closed |-> FALSE]]]

\* onPointerUp that leaves the state in place
OnPointerUpKeeps(st, pt) ==
  IF ~ActiveStroke(st) THEN [state |-> st, result |-> NoResult]
  ELSE LET lastPoint == st.points[Len(st.points)]
           points == IF lastPoint # pt THEN Append(st.points, pt) ELSE st.points
       IN [state |-> [st EXCEPT !.points = points],
           result |-> [type |-> "update", shapeId |-> st.shapeId,
                       shape |-> [id |-> st.shapeId, points |-> points,
                                  closed |-> FALSE]]]

\* PenTool.onPointerUp: the release point is added when it differs from the
\* last one, and the state is cleared
OnPointerUp(st, pt) ==
  IF ~ActiveStroke(st) THEN [state |-> st, result |-> NoResult]
  ELSE LET lastPoint == st.points[Len(st.points)]
           points == IF lastPoint # pt THEN Append(st.points, pt) ELSE st.points
       IN [state |-> NoStroke,
           result |-> [type |-> "update", shapeId |-> st.shapeId,
                       shape |-> [id |-> st.shapeId, points |-> points,
                                  closed |-> FALSE]]]

\* PenTool.onKeyDown
OnKeyDown(st, key) ==
  IF key = "Escape" /\ ActiveStroke(st)
  THEN [state |-> NoStroke, result |-> [type |-> "delete", shapeId |-> st.shapeId]]
  ELSE [state |-> st, result |-> NoResult]

penRest == <<coreVars, persistVars, transportVars, presenceVars, consumerVars,
             managerVars, viewVars, inflight, nevents, storeLog>>

\* an event was delivered and the tool answered `out`
PenDelivered(event, out, ends) ==
  /\ pen' = out.state
  /\ lastResult' = out.result
  /\ penLog' = [event |-> event,
                wasActive |-> ActiveStroke(pen),
                wasEnded |-> penLog.ended,
                ended |-> IF event = "down" THEN FALSE ELSE (penLog.ended \/ ends),
                create |-> IF out.result.type = "create" THEN out.result.shapeId
                           ELSE penLog.create,
                prev |-> IF event = "down" THEN <<>> ELSE penLog.last,
                last |-> IF out.result.type \in {"create", "update"}
                         THEN out.result.shape.points ELSE penLog.last]
  /\ UNCHANGED penRest

PenDown(pt) ==
  /\ nextId < MaxStrokes
  /\ nextId' = nextId + 1
  /\ PenDelivered("down", OnPointerDown(pen, nextId + 1, pt), FALSE)

PenMove(pt) ==
  /\ Len(pen.points) < MaxStrokeLen
  /\ PenDelivered("move", OnPointerMove(pen, pt), FALSE)
  /\ UNCHANGED nextId

PenUp(pt) ==
  /\ PenDelivered("up", OnPointerUp(pen, pt), TRUE)
  /\ UNCHANGED nextId

PenKey(key) ==
  /\ PenDelivered("key", OnKeyDown(pen, key), key = "Escape")
  /\ UNCHANGED nextId

InitPen == InitLocal

NextPen ==
  \/ \E pt \in PenPoints : PenDown(pt)
  \/ \E pt \in PenPoints : PenMove(pt)
  \/ \E pt \in PenPoints : PenUp(pt)
  \/ \E key \in PenKeys : PenKey(key)

SpecPen == InitPen /\ [][NextPen]_vars

(***************************************************************************)
(* CanvasRoot handing tool results to the canvas store: each handler runs  *)
(* Promise.resolve(res).then(applyToolResult) on what the active tool      *)
(* returned, a result or a promise of one.                                 *)
(***************************************************************************)
MaxEvents == 5

canvasRest == <<coreVars, persistVars, transportVars, presenceVars, consumerVars,
                managerVars, viewVars, pen, nextId, lastResult, penLog>>

\* onPointerDown / onPointerMove / onPointerUp / onKeyDown: the tool returns
\* a result, applied in the microtask that follows the handler, or a promise
\* still pending
CanvasEvent(async) ==
  /\ nevents < MaxEvents
  /\ nevents' = nevents + 1
  /\ IF async
     THEN inflight' = inflight \cup {nevents + 1} /\ UNCHANGED storeLog
     ELSE storeLog' = Append(storeLog, nevents + 1) /\ UNCHANGED inflight
  /\ UNCHANGED canvasRest

\* the promise a tool returned for event n resolves: applyToolResult runs
ToolPromiseResolves(n) ==
  /\ n \in inflight
  /\ inflight' = inflight \ {n}
  /\ storeLog' = Append(storeLog, n)
  /\ UNCHANGED <<nevents, canvasRest>>

InitCanvas == InitLocal

NextCanvas ==
  \/ \E async \in BOOLEAN : CanvasEvent(async)
  \/ \E n \in 1..MaxEvents : ToolPromiseResolves(n)

SpecCanvas == InitCanvas /\ [][NextCanvas]_vars


(***************************************************************************)
(* The Viewport: pan, zoom about a screen point, and the two ways a world  *)
(* point is taken to the screen, worldToScreen and the matrix of           *)
(* getTransform.  Numbers are exact fractions.                             *)
(***************************************************************************)
MaxViewOps == 2

Abs(n) == IF n < 0 THEN 0 - n ELSE n

RECURSIVE GCD(_, _)
GCD(a, b) == IF b = 0 THEN a ELSE GCD(b, a % b)

\* the fraction n / d in lowest terms, d # 0
Frac(n, d) ==
  LET g == GCD(Abs(n), Abs(d))
      sgn == IF d < 0 THEN 0 - 1 ELSE 1
  IN <<(sgn * n) \div g, (sgn * d) \div g>>

RAdd(a, b) == Frac(a[1] * b[2] + b[1] * a[2], a[2] * b[2])
RSub(a, b) == Frac(a[1] * b[2] - b[1] * a[2], a[2] * b[2])
RMul(a, b) == Frac(a[1] * b[1], a[2] * b[2])
RDiv(a, b) == Frac(a[1] * b[2], a[2] * b[1])
RLess(a, b) == a[1] * b[2] < b[1] * a[2]
RMax(a, b) == IF RLess(a, b) THEN b ELSE a
RMin(a, b) == IF RLess(a, b) THEN a ELSE b

\* Math.max(0.1, Math.min(10, zoom))
ClampZoom(zoom) == RMax(<<1, 10>>, RMin(<<10, 1>>, zoom))

\* Viewport.worldToScreen
WorldToScreen(v, w) ==
  [x |-> RMul(RSub(w.x, v.x), v.zoom), y |-> RMul(RSub(w.y, v.y), v.zoom)]

\* Viewport.screenToWorld
ScreenToWorld(v, p) ==
  [x |-> RAdd(RDiv(p.x, v.zoom), v.x), y |-> RAdd(RDiv(p.y, v.zoom), v.y)]

\* Viewport.pan
Pan(v, deltaX, deltaY) ==
  [v EXCEPT !.x = RAdd(@, RDiv(deltaX, v.zoom)), !.y = RAdd(@, RDiv(deltaY, v.zoom))]

\* Viewport.zoomToPoint
ZoomToPoint(v, newZoom, screenPoint) ==
  LET clampedZoom == ClampZoom(newZoom)
      worldPoint == ScreenToWorld(v, screenPoint)
      v1 == [v EXCEPT !.zoom = clampedZoom]
      newScreenPoint == WorldToScreen(v1, worldPoint)
      deltaX == RSub(screenPoint.x, newScreenPoint.x)
      deltaY == RSub(screenPoint.y, newScreenPoint.y)
  IN [v1 EXCEPT !.x = RAdd(@, RDiv(deltaX, v1.zoom)),
                !.y = RAdd(@, RDiv(deltaY, v1.zoom))]

\* new DOMMatrix(): a c e / b d f
IdentityMatrix == [a |-> One, b |-> Zero, c |-> Zero, d |-> One, e |-> Zero, f |-> Zero]

\* DOMMatrix.translateSelf: the matrix times a translation
TranslateSelf(m, tx, ty) ==
  [m EXCEPT !.e = RAdd(RAdd(RMul(m.a, tx), RMul(m.c, ty)), m.e),
            !.f = RAdd(RAdd(RMul(m.b, tx), RMul(m.d, ty)), m.f)]

\* DOMMatrix.scaleSelf about the origin: the matrix times a scaling
ScaleSelf(m, sx, sy) ==
  [m EXCEPT !.a = RMul(@, sx), !.b = RMul(@, sx), !.c = RMul(@, sy), !.d = RMul(@, sy)]

\* Viewport.getTransform
GetTransform(v) ==
  ScaleSelf(TranslateSelf(IdentityMatrix, RSub(Zero, v.x), RSub(Zero, v.y)),
            v.zoom, v.zoom)

\* where a canvas context with transform m draws the point w
TransformPoint(m, w) ==
  [x |-> RAdd(RAdd(RMul(m.a, w.x), RMul(m.c, w.y)), m.e),
   y |-> RAdd(RAdd(RMul(m.b, w.x), RMul(m.d, w.y)), m.f)]

\* screen points of pointer and wheel events, and world points of shapes
ScreenPoints == {[x |-> <<0, 1>>, y |-> <<0, 1>>], [x |-> <<4, 1>>, y |-> <<2, 1>>]}
WorldPoints == {[x |-> <<0, 1>>, y |-> <<0, 1>>], [x |-> <<3, 1>>, y |-> <<0 - 1, 1>>]}

\* zoom levels asked for: inside [0.1, 10], its ends, and beyond them
ZoomLevels == {<<1, 20>>, <<1, 10>>, <<1, 2>>, <<2, 1>>, <<10, 1>>, <<20, 1>>}

ZoomFactors == {<<9, 10>>, <<11, 10>>}

PanDeltas == {<<1, 0>>, <<0 - 3, 2>>}

viewRest == <<coreVars, persistVars, transportVars, presenceVars, consumerVars,
              managerVars, toolVars>>

ViewPan(delta) ==
  /\ nview < MaxViewOps /\ nview' = nview + 1
  /\ vp' = Pan(vp, <<delta[1], 1>>, <<delta[2], 1>>)
  /\ lastZoom' = NoZoom
  /\ UNCHANGED viewRest

ViewZoomToPoint(newZoom, screenPoint) ==
  /\ nview < MaxViewOps /\ nview' = nview + 1
  /\ vp' = ZoomToPoint(vp, newZoom, screenPoint)
  /\ lastZoom' = [screen |-> screenPoint, world |-> ScreenToWorld(vp, screenPoint),
                  from |-> vp.zoom]
  /\ UNCHANGED viewRest

\* Viewport.zoomBy with a centre point
ViewZoomBy(factor, centerPoint) ==
  /\ nview < MaxViewOps /\ nview' = nview + 1
  /\ vp' = ZoomToPoint(vp, RMul(vp.zoom, factor), centerPoint)
  /\ lastZoom' = [screen |-> centerPoint, world |-> ScreenToWorld(vp, centerPoint),
                  from |-> vp.zoom]
  /\ UNCHANGED viewRest

\* Viewport.reset
ViewReset ==
  /\ nview < MaxViewOps /\ nview' = nview + 1
  /\ vp' = [x |-> Zero, y |-> Zero, zoom |-> One]
  /\ lastZoom' = NoZoom
  /\ UNCHANGED viewRest

InitViewport == InitLocal

NextViewport ==
  \/ \E delta \in PanDeltas : ViewPan(delta)
  \/ \E newZoom \in ZoomLevels, screenPoint \in ScreenPoints :
       ViewZoomToPoint(newZoom, screenPoint)
  \/ \E factor \in ZoomFactors, centerPoint \in ScreenPoints :
       ViewZoomBy(factor, centerPoint)
  \/ ViewReset

SpecViewport == InitViewport /\ [][NextViewport]_vars


\* ------------------------------------------------- history helpers
Writes == {h \in hist : h.kind = "setShape"}

Deletes == {h \in hist : h.kind = "deleteShape"}

\* ids of the items operation h created
OpItems(h) == {<<ClientId(h.r), k>> : k \in h.clock .. (h.clock + h.n - 1)}

\* the replica running h had the item in its store when h started
Known(h, id) == id[2] < h.sv[id[1]]

IsWritten(id) == \E h \in Writes : id \in OpItems(h)

WriteOf(id) == CHOOSE h \in Writes : id \in OpItems(h)

\* two setShape operations of different replicas, neither aware of the other
ConcurrentWrites(ha, hb) ==
  /\ ha.r # hb.r /\ ha.n > 0 /\ hb.n > 0
  /\ ~Known(ha, <<ClientId(hb.r), hb.clock>>)
  /\ ~Known(hb, <<ClientId(ha.r), ha.clock>>)

\* every item is linked into exactly one entry list, once
NoDuplicates(d) ==
  /\ \A pk \in DOMAIN d.lists :
       \A i, j \in 1..Len(d.lists[pk]) : d.lists[pk][i] = d.lists[pk][j] => i = j
  /\ \A it \in d.items :
       \E n \in 1..Len(ListOf(d, it.parent, it.key)) :
          ListOf(d, it.parent, it.key)[n] = it.id

\* ------------------------------------------------------------- C1
\* C1: replicas that have merged the same set of updates, in whatever
\* order each of them received it, show the same shape snapshot.
C1_Convergence ==
  \A r1, r2 \in Replicas :
     applied[r1] = applied[r2] => GetShapes(doc[r1]) = GetShapes(doc[r2])

\* two replicas wrote concurrently, each merged its own write first and
\* the other's second, and both have merged everything
C1_Witness ==
  /\ \E ha, hb \in Writes : ConcurrentWrites(ha, hb) /\ ha.sid = hb.sid
  /\ \A r1, r2 \in Replicas : applied[r1] = applied[r2]
  /\ \A u \in emitted : \A r \in Replicas : Carries(applied[r], u)
  /\ \A r \in Replicas : DOMAIN GetShapes(doc[r]) # {}

\* ------------------------------------------------------------- C2
\* C2: merging an update a replica has already merged changes nothing,
\* neither its document nor its snapshot.
C2_Idempotence ==
  \A r \in Replicas :
     \A u \in emitted \cup {EncodeStateAsUpdate(doc[q]) : q \in Replicas} :
        Carries(applied[r], u) =>
           /\ ApplyUpdate(doc[r], u) = doc[r]
           /\ GetShapes(ApplyUpdate(doc[r], u)) = GetShapes(doc[r])

\* a replica holds another replica's write, whose update can reach it again
C2_Witness ==
  \E r \in Replicas : \E u \in emitted :
     /\ u.structs # {}
     /\ \A s \in u.structs : s.id[1] # ClientId(r)
     /\ Carries(applied[r], u)
     /\ u.structs \subseteq doc[r].items
     /\ DOMAIN GetShapes(doc[r]) # {}


\* ------------------------------------------------------------- C3
\* C3: while a transport is attached, every local write that changes the
\* document has been passed to transport.sendUpdate in an update carrying
\* the change.
C3_LocalWritesSent ==
  (lastOp.kind # "none" /\ lastOp.attached) =>
     \A u \in lastOp.updates : \E v \in sent[lastOp.r] : Carries(v, u)

C5_LocalFirst ==
  LET snap == GetShapes(doc[lastOp.r])
      sid == lastOp.arg.id
  IN /\ lastOp.kind = "setShape" =>
          /\ sid \in DOMAIN snap
          /\ \A f \in DOMAIN lastOp.arg : snap[sid][f] = lastOp.arg[f]
     /\ lastOp.kind = "deleteShape" => sid \notin DOMAIN snap

\* a shape written over a deleted one while the status is error and a
\* disconnect is in flight
C5_Witness ==
  /\ lastOp.kind = "setShape"
  /\ lastOp.status = "error" /\ lastOp.inflight /\ lastOp.attached
  /\ \E h \in Deletes : h.r = lastOp.r /\ h.parent # NoId
  /\ lastOp.arg.id \in DOMAIN GetShapes(doc[lastOp.r])
  /\ GetShapes(doc[lastOp.r])[lastOp.arg.id].style = lastOp.arg.style

\* ------------------------------------------- concurrent field writes
\* a and b are writes of the same field of the same shape by two replicas,
\* neither of which had merged the other's write; replica r holds both and
\* nothing else that either writer had not seen, has merged no update that
\* overwrites either of them, and the shape is not deleted
ConcurrentFieldWrites(r, a, b) ==
  LET L == ListOf(doc[r], a.parent, a.key)
  IN /\ a.parent = b.parent /\ a.parent # Root /\ a.key = b.key
     /\ a.id[1] # b.id[1]
     /\ IsWritten(a.id) /\ IsWritten(b.id)
     /\ ~Known(WriteOf(a.id), b.id) /\ ~Known(WriteOf(b.id), a.id)
     /\ a.parent \notin doc[r].deleted
     /\ a.id \notin applied[r].ds /\ b.id \notin applied[r].ds
     /\ \A n \in 1..Len(L) :
          L[n] \notin {a.id, b.id} =>
             Known(WriteOf(a.id), L[n]) /\ Known(WriteOf(b.id), L[n])

FieldValue(r, a) == TypeMapGet(doc[r], a.parent, a.key)

C7_TieLargerReplicaWins ==
  \A r \in Replicas : \A a, b \in doc[r].items :
     ConcurrentFieldWrites(r, a, b) /\ a.id[2] = b.id[2] /\ a.id[1] < b.id[1] =>
        FieldValue(r, a) = b.content

\* every replica has merged two concurrent writes of different values with
\* equal clocks
C7_Witness ==
  \E a, b \in doc[1].items :
     /\ a.id[2] = b.id[2] /\ a.id[1] < b.id[1] /\ a.content # b.content
     /\ \A r \in Replicas :
          /\ {a, b} \subseteq doc[r].items
          /\ ConcurrentFieldWrites(r, a, b)
          /\ FieldValue(r, a) = b.content

\* ------------------------------------------- delete against update
\* hd deleted the shape whose field b writes, the deleter had not merged b,
\* replica r has merged both, and the shape was not created again
DeleteVsUpdate(r, hd, b) ==
  /\ hd \in Deletes /\ hd.parent # NoId
  /\ b.parent = hd.parent /\ b.id[1] # ClientId(hd.r)
  /\ IsWritten(b.id)
  /\ ~Known(hd, b.id)
  /\ b \in doc[r].items
  /\ hd.parent \in applied[r].ds
  /\ MapCurrent(doc[r], Root, hd.sid) = hd.parent

\* ------------------------------------------------------------- C8
\* C8: when a deletion carries a higher clock than a concurrent update of
\* a field of the same shape, the shape is absent from the snapshot of every
\* replica that has merged both.
C8_DeleteBeatsOlderUpdate ==
  \A r \in Replicas : \A hd \in hist : \A b \in doc[r].items :
     DeleteVsUpdate(r, hd, b) /\ hd.clock > b.id[2] =>
        hd.sid \notin DOMAIN GetShapes(doc[r])

C8_Witness ==
  \E hd \in hist : \E b \in doc[1].items :
     /\ hd.clock > b.id[2]
     /\ \A r \in Replicas :
          /\ DeleteVsUpdate(r, hd, b)
          /\ hd.sid \notin DOMAIN GetShapes(doc[r])

Created(h) == h \in Writes /\ h.n > 0 /\ h.parent = <<ClientId(h.r), h.clock>>

\* the item operation h wrote for field k
FieldItem(d, h, k) ==
  CHOOSE it \in d.items : it.id \in OpItems(h) /\ it.parent = h.parent /\ it.key = k

FieldKeys(d, h) == {it.key : it \in {x \in d.items : x.id \in OpItems(h) /\ x.parent = h.parent}}

\* ha and hb created the same shape id on two replicas, neither having
\* merged the other's; replica r has merged both, holds no other entry for
\* the id that either had not seen, and nothing else touched the two shapes
ConcurrentCreates(r, ha, hb) ==
  LET L == ListOf(doc[r], Root, ha.sid)
  IN /\ Created(ha) /\ Created(hb)
     /\ ha.sid = hb.sid /\ ha.r # hb.r
     /\ ~Known(ha, hb.parent) /\ ~Known(hb, ha.parent)
     /\ OpItems(ha) \cup OpItems(hb) \subseteq Ids(doc[r])
     /\ \A n \in 1..Len(L) :
          L[n] \notin {ha.parent, hb.parent} => Known(ha, L[n]) /\ Known(hb, L[n])
     /\ \A h \in hist : h \notin {ha, hb} => h.parent \notin {ha.parent, hb.parent}

C11_RoundTrip ==
  /\ restoredFresh => GetShapes(doc[1]) = savedShapes
  /\ \A r \in Replicas :
       GetShapes(ApplyUpdate(EmptyDoc, EncodeStateAsUpdate(doc[r]))) = GetShapes(doc[r])

\* restore() has just filled the empty document of a reloaded page from
\* bytes that hold a deleted shape
C11_Witness ==
  /\ restoredFresh /\ epoch > 0
  /\ \E it \in doc[1].items : it.parent = Root /\ it.id \in doc[1].deleted
  /\ GetShapes(doc[1]) = savedShapes

\* ------------------------------------------------------------ C12
\* the emitted updates replica r has merged, directly or inside a snapshot
MergedUpdates(r) == {u \in emitted : Carries(applied[r], u)}

RECURSIVE ApplyAll(_, _)
ApplyAll(d, us) ==
  IF us = {} THEN d
  ELSE LET u == CHOOSE x \in us : TRUE
       IN ApplyAll(ApplyUpdate(d, u), us \ {u})

NoWriteNoConnect == nops' = nops /\ nconn' = nconn

InitializeInFlight == initPc \in {"opening", "restoring"}

\* C13: while initialize() is opening the database or restoring, no local
\* write is applied and no connect() begins.
C13_RestoreBeforeWriteAndConnect ==
  [][InitializeInFlight => NoWriteNoConnect]_vars

\* ------------------------------------------------------------ C20
\* C20: when opening IndexedDB fails, initialize() does not throw to its
\* caller.
C20_StorageFailureTolerated ==
  ~storageOk => "initialize" \notin thrown


\* C14: every connect(), once transport.connect has resolved, hands the
\* transport exactly one update, the encoding of the whole document as it is
\* at that moment
C14_ConnectSendsOneFullState ==
  /\ lastEv = "connectResume" => Len(stepSends) = 1
  /\ \A i \in 1..Len(stepSends) : stepSends[i] = EncodeStateAsUpdate(doc[1])

\* a second connect() that sends the state with an edit the first one did not have
C14_Witness ==
  /\ lastEv = "connectResume" /\ nconn = 2 /\ nops = 1
  /\ Len(stepSends) = 1 /\ stepSends[1].structs # {}
  /\ EmptyUpdate \in sent[1]

DisconnectCompleted == cur = 0 /\ nconn > 0 /\ cur' = 0

\* the status stays 'disconnected' and only setShape / deleteShape change the store
NoLateCallbackEffect ==
  /\ status'[1] = "disconnected"
  /\ doc'[1] # doc[1] => lastEv' = "write"

\* C16: once disconnect() has completed, callbacks of a former transport change
\* neither the store nor the status until the next connect()
C16_DisconnectUnsubscribes == [][DisconnectCompleted => NoLateCallbackEffect]_vars

\* C17: a transport fault (connect rejecting, sendUpdate throwing) never makes
\* connect() throw; it shows only as status 'error'
C17_FaultsOnlyAsErrorStatus ==
  /\ "connect" \notin thrown
  /\ lastEv = "connectFail" => status[1] = "error"

\* C18: the updates a LocalTransport was handed while disconnected are kept
\* and have been sent once it is connected again
C18_BufferedFlushedOnReconnect ==
  ltStatus = "connected" =>
    \A u \in offlineSends.due : u \in SeqToSet(wire[LocalT])

\* a malformed update has just been handed to handleUpdate
MalformedDelivered == lastEv' = "malformed"

\* the store is as it was and nothing was thrown out of the callback
RejectedWhole == doc'[1] = doc[1] /\ "handleUpdate" \notin thrown'

\* C19: a malformed incoming update is rejected as a whole and no error leaves
\* the transport callback
C19_MalformedRejected == [][MalformedDelivered => RejectedWhole]_vars


\* a save() begins
SaveStarts == saving = {} /\ saving' # {}

\* save() was called by beforeunload, or with the pending mark set, and not by an edit
StartedWhenDue ==
  /\ nops' = nops
  /\ \A sv \in saving' : sv.trigger = "unload" \/ pendingUpdate

\* setShape / deleteShape
EditStep == nops' = nops + 1

\* the edit starts no save and writes nothing; once auto-save is set up a
\* change sets the pending mark
EditOnlyMarks ==
  /\ saving' = saving /\ idb' = idb
  /\ (isInitialized /\ doc'[1] # doc[1]) => pendingUpdate'

CoalescedStep == (SaveStarts => StartedWhenDue) /\ (EditStep => EditOnlyMarks)

SaveCompletes == saving # {} /\ saving' = {} /\ epoch' = epoch

\* whatever the completed save did not write is still marked pending
UnsavedStillPending ==
  (\A sv \in saving : sv.bytes # EncodeStateAsUpdate(doc'[1])) => pendingUpdate'

\* C30: an edit that arrives while a save() is in flight still has the pending
\* mark set when that save completes, so a later tick writes it
C30_EditDuringSaveStaysPending == [][SaveCompletes => UnsavedStillPending]_vars


\* C22: getRemotePresence() holds no entry whose last heartbeat is older than
\* the time to live
C22_ExpiredAbsent ==
  \A c \in DOMAIN GetRemotePresence :
    now - GetRemotePresence[c].lastSeen <= OutdatedTimeout

\* the interval callback of the PresenceManager runs
HeartbeatRuns == beats' = beats + 1

\* the local entry is published with the current time as lastSeen
Republished ==
  /\ localPresence'.lastSeen = now
  /\ awStates'[LocalClient] = [presence |-> localPresence']

\* C23: every run of the heartbeat re-publishes the local entry with a fresh
\* timestamp, whether or not a cursor or a tool is set
C23_HeartbeatAlways == [][HeartbeatRuns => Republished]_vars

\* C24: at teardown the removal of the local entry is published while the
\* transport connection is still open, and the heartbeat timer is stopped
C24_RemovalBeforeClose ==
  /\ removalAt # "closed"
  /\ pm = "destroyed" => ~updateInterval

\* a presence operation: an update of the local entry, a heartbeat, destroy,
\* or a change of a remote entry
PresenceStep == awStates' # awStates \/ beats' # beats \/ pm' # pm

\* the document, the pending mark, the stored bytes and what a save() would
\* write are as before
NothingDurable ==
  /\ doc' = doc
  /\ pendingUpdate' = pendingUpdate
  /\ idb' = idb /\ saving' = saving
  /\ EncodeStateAsUpdate(doc'[1]) = EncodeStateAsUpdate(doc[1])

\* C25: no presence operation changes the shape document, sets the pending
\* mark, or changes the bytes a save() writes
C25_PresenceNotDurable == [][PresenceStep => NothingDurable]_vars

\* presence was updated, beaten, received and destroyed next to an initialized
\* persistence with nothing pending
C25_Witness ==
  /\ pm = "destroyed" /\ beats > 0 /\ localPresence.cursor # Null
  /\ awStates[RemoteClient] # NoState
  /\ isInitialized /\ ~pendingUpdate /\ doc[1] # EmptyDoc

\* C29: after YjsDocument.destroy() and PresenceManager.destroy() none of the
\* handlers they registered is still registered
C29_AllReleased == (docDestroyed /\ pm = "destroyed") => Registered = {}


\* C26: the map getShapes() returned is an immutable snapshot: what a caller
\* holds never changes after it was returned
C26_SnapshotImmutable == Deref(held, heap) = heldValue

\* the page's document changes
DocChanges == doc'[1] # doc[1]

\* by setShape / deleteShape or by an update from the transport
ThroughCoordinator == lastEv' \in {"write", "callback"}

\* C27: the document changes only through setShape, deleteShape and updates
\* arriving from the transport; callers get no reference that can change it
C27_OnlyCoordinatorMutates == [][DocChanges => ThroughCoordinator]_vars

\* a merge changes the shapes while a shape-change callback is set
StoreChanges == onShapeChange /\ GetShapes(doc'[1]) # GetShapes(doc[1])

\* the callback was invoked with a snapshot of the new state
ConsumerNotified == rendered' = GetShapes(doc'[1])

\* C28: after every merge that changes the store the shape-change callback is
\* invoked with a snapshot that reflects the change
C28_ChangeNotified == [][StoreChanges => ConsumerNotified]_vars


\* C32: when disconnect() is called while connect() awaits transport.connect,
\* no initial-state update is handed to the transport after it was
\* disconnected, and once both calls have completed the coordinator holds no
\* transport and its status is 'disconnected'
C32_NoSendAfterDisconnect ==
  /\ offlineSends.missed = {}
  /\ (awaits = <<>> /\ cur = 0 /\ tcb = [t \in Transports |-> FALSE]) =>
       status[1] = "disconnected"

\* C33: from LocalTransport.disconnect() to the next connect() the
\* transport's getStatus() is 'disconnected'
C33_LocalStaysDisconnected == ~tcb[LocalT] => ltStatus = "disconnected"

\* the promise returned by LocalTransport.connect resolves: connect() resumes
LocalConnectResolves ==
  \E i \in 1..Len(awaits) :
    awaits[i] = <<"conn", LocalT>> /\ awaits' = RemoveAt(awaits, i)

\* the transport's getStatus() is 'connected' at that moment
ConnectedAtResolve == ltStatus = "connected"

\* C34: when the promise of LocalTransport.connect resolves the transport is
\* connected, so the initial state goes to a connected transport
C34_ResolvesWhenConnected == [][LocalConnectResolves => ConnectedAtResolve]_vars


\* C31: once destroy() was called and initialize() has not been called
\* since, no auto-save timer is running, no update / visibility / unload
\* handler is registered and no database handle is open
C31_DestroyReleasesAll ==
  destroyed => intervals = {} /\ pmListeners = {} /\ handles = {}

\* a save() whose write to the store failed returns
SaveFails == saving # {} /\ saving' = {} /\ lastEv' = "saveFail"

\* the auto-save tick would call save() and save() would write
TickWouldSave == intervals # {} /\ pendingUpdate /\ pdb /\ saving = {}

\* nothing was thrown, the stored bytes and the document are as they were,
\* the pending mark is as it was, and a tick-started save is started again by
\* the next tick of a manager not destroyed meanwhile
FailureTolerated ==
  /\ thrown' = thrown /\ idb' = idb /\ savedShapes' = savedShapes /\ doc' = doc
  /\ pendingUpdate' = pendingUpdate
  /\ \A sv \in saving :
       (sv.trigger = "tick" /\ autoSaveInterval # 0 /\ pdb) => TickWouldSave'

C36_SetShapeReplaces ==
  lastOp.kind = "setShape" =>
    /\ lastOp.arg.id \in DOMAIN GetShapes(doc[lastOp.r])
    /\ GetShapes(doc[lastOp.r])[lastOp.arg.id] = FreshShape(lastOp.arg)


\* C37: tool results reach the canvas store in the order of the input
\* events that produced them, whether the tool returned them directly or
\* as promises
C37_ResultsInEventOrder ==
  \A i, j \in 1..Len(storeLog) : i < j => storeLog[i] < storeLog[j]

\* p is an initial part of q
IsPrefix(p, q) == Len(p) <= Len(q) /\ \A i \in 1..Len(p) : p[i] = q[i]

\* C38: for every event sequence of a PenTool, a move or up without an
\* active stroke returns null, every update or delete carries the id of the
\* latest create, each update's points begin with those of the stroke's
\* previous result, and after an up or an Escape nothing is returned until
\* the next down
C38_PenStrokeDiscipline ==
  /\ (penLog.event \in {"move", "up"} /\ ~penLog.wasActive) => lastResult = NoResult
  /\ lastResult.type \in {"update", "delete"} => lastResult.shapeId = penLog.create
  /\ lastResult.type = "update" =>
       /\ lastResult.shape.id = penLog.create
       /\ IsPrefix(penLog.prev, lastResult.shape.points)
  /\ (penLog.wasEnded /\ penLog.event # "down") => lastResult = NoResult

C38_Witness ==
  /\ penLog.event = "up" /\ lastResult.type = "update"
  /\ lastResult.shapeId = 2 /\ Len(lastResult.shape.points) = 3
  /\ penLog.prev # lastResult.shape.points

\* a second stroke ended by Escape, and a move that came after it
C38_WitnessQuiet ==
  /\ penLog.event = "move" /\ penLog.wasEnded /\ penLog.create = 2
  /\ lastResult = NoResult


\* C39: after zoomToPoint(newZoom, p) the world point that was under the
\* screen point p before the call is under p again
C39_ZoomKeepsAnchor ==
  lastZoom # NoZoom => WorldToScreen(vp, lastZoom.world) = lastZoom.screen

\* C40: the matrix of getTransform() takes every world point to the screen
\* point worldToScreen() gives for it
C40_TransformMatchesWorldToScreen ==
  \A w \in WorldPoints : TransformPoint(GetTransform(vp), w) = WorldToScreen(vp, w)

====
